---- MODULE Spec2Model ----
(***************************************************************************)
(* Model of the io-ctrl control engine: output driver, roller-shutter      *)
(* manager, binding engine (micro VM) and bus reader.                      *)
(*                                                                         *)
(* Time.  The code stores an Instant in Up/Down/Cooldown and only ever     *)
(* uses now.duration_since(that instant).  The model stores that distance  *)
(* directly (field "since" = milliseconds elapsed since the instant was    *)
(* taken); passing of time adds to it, "Up(now)" sets it to 0.             *)
(*                                                                         *)
(* Positions.  position/target are f32 percentages in the code.  The       *)
(* model keeps them as exact integers in finer units: HScale units per     *)
(* percent of height and TScale units per percent of tilt, chosen so that  *)
(* one millisecond of motion is a whole number of units (real arithmetic,  *)
(* no f32 rounding).                                                       *)
(***************************************************************************)
EXTENDS Integers, Sequences, FiniteSets, TLC

VARIABLES
    shutters,   \* Manager.shutters: [0..MAX_SHUTTERS-1 -> shutter record]
    io,         \* Board.indexed_outputs: cache, expander word, expander pins, native pins
    wait,       \* Manager::on_mount: min_duration of the pending select()
    mgr,        \* Manager task: "run" | "panic"
    delivered,  \* history: what ended the last select(): [idx, cmd], cmd.c = "Timeout" for the timer
    faults,     \* environment: number of I2C write errors that have happened
    vm,         \* Executor: layers, bindings, opcodes, procedures, registers; the
                \* effects of the last handler (dispatched, shut, tx) and history
    pressed,    \* environment: per switch "up" | "down" | "clicked"
    bus,        \* task_read_interconnect: the last frame received and what the
                \* reader did with it (event, shutter command, reply, clock)
    drv,        \* history: the last call made on IndexedOutputs directly and
                \* what it returned
    codec,      \* history: the last message or shutter command encoded, its
                \* bytes and what they decode to
    can,        \* Interconnect: frames in the TX buffer, the position of the
                \* running transmit_standard and what it has done so far
    exp,        \* Board.expander_switches and Board.expander_sensors: the
                \* ExpanderInputs fields, the locals of run() and what the last
                \* loop iteration read and emitted
    buttons,    \* INPUT_CHANNEL, and per switch the triggers the converter has
                \* delivered since the last Activated
    status,     \* history: what started the last send_status and the
                \* transmissions and timer waits it made, in order
    cpu,        \* Executor::execute, opcode by opcode: the Executor, pc, the
                \* call stack and whether the loop runs, broke or panicked
    lock,       \* Interconnect with several transmitting tasks: the TX buffer,
                \* the holder of the can_tx mutex and each task's position
    sys         \* the tasks of the node and what each of them awaits

vars == <<shutters, io, wait, mgr, delivered, faults, vm, pressed, bus, drv, codec, can,
          exp, buttons, status, cpu, lock, sys>>

----------------------------------------------------------------------------
(* Helpers *)
Abs(x) == IF x < 0 THEN -x ELSE x
Min(a, b) == IF a < b THEN a ELSE b
Clamp(x, lo, hi) == IF x < lo THEN lo ELSE IF x > hi THEN hi ELSE x

----------------------------------------------------------------------------
(* Output driver: IndexedOutputs over one ExpanderOutputs and native pins *)

\* ctrl_board_v1.rs: IDs for outputs in order, starting with expander outputs.
indices == <<1, 2, 3, 4, 5, 6, 7, 8, 9, 10, 11, 12, 13, 14, 15, 16,
             51, 52, 53, 54, 55, 56, 57, 58>>

\* Number of expanders in IndexedOutputs.grouped.
EXPANDER_N == 1

\* OutIdx::MAX, the index of an output that is not configured.
OUT_MAX == 255

\* IndexedOutputs.active_low: [false; IN] unless the board says otherwise.
active_low(position) == FALSE

\* IndexedOutputs::find_id: 1-based position in the list, 0 for None.
find_id(io_idx) ==
    IF \E p \in 1..Len(indices) : indices[p] = io_idx
    THEN CHOOSE p \in 1..Len(indices) :
            indices[p] = io_idx /\ \A q \in 1..(p - 1) : indices[q] # io_idx
    ELSE 0

\* State after construction and a successful init_outputs(): every output
\* commanded to false.
IoInit ==
    [ calls  |-> 0, failing |-> {},
      state  |-> [p \in 1..Len(indices) |-> FALSE],
      word   |-> {b \in 0..15 : active_low(b + 1)},
      wire   |-> {b \in 0..15 : active_low(b + 1)},
      native |-> [n \in 1..(Len(indices) - 16 * EXPANDER_N) |-> active_low(16 * EXPANDER_N + n)] ]

\* ExpanderOutputs::set: the shadow word is changed first, then written.
\* The write is the (o.calls + 1)-th I2C write of the running handler; it
\* returns Err when the environment put that number in o.failing.
ExpanderSet(o, bit, high) ==
    LET w    == IF high THEN o.word \cup {bit} ELSE o.word \ {bit}
        n    == o.calls + 1
        fail == n \in o.failing
    IN  [ io |-> IF fail THEN [o EXCEPT !.word = w, !.calls = n]
                         ELSE [o EXCEPT !.word = w, !.wire = w, !.calls = n],
          ok |-> ~fail ]

\* set that does not record the new state in the cache (faulty variant)
set_not_cached(r, position, high) == r

\* set that records the new state although the write failed (faulty variant)
set_cached_on_error(r, position, high) ==
    [io |-> [r.io EXCEPT !.state[position] = high], ok |-> r.ok]

\* IndexedOutputs::set, after the expander write: a failed write returns
\* early, a successful one is recorded in the cache.
set_cached(r, position, high) ==
    IF r.ok THEN [io |-> [r.io EXCEPT !.state[position] = high], ok |-> TRUE] ELSE r

\* IndexedOutputs::set on the output found at position (0: not found)
set_at(o, position, high) ==
    IF position = 0 THEN [io |-> o, ok |-> FALSE]
    ELSE
      LET expander_no == (position - 1) \div 16
          set_as_high == IF active_low(position) THEN ~high ELSE high
          io_within   == (position - 1) - expander_no * 16
      IN  IF expander_no >= EXPANDER_N
          THEN [ io |-> [o EXCEPT !.native[io_within + 1] = set_as_high,
                                  !.state[position] = high],
                 ok |-> TRUE ]
          ELSE set_cached(ExpanderSet(o, io_within, set_as_high), position, high)

\* IndexedOutputs::set
OutSet(o, io_idx, high) == set_at(o, find_id(io_idx), high)

\* A handler starts: the environment fixes which of its I2C writes fail.
IoBegin(o, failing) == [o EXCEPT !.calls = 0, !.failing = failing]
\* A handler ends.
IoEnd(o) == [o EXCEPT !.calls = 0, !.failing = {}]

\* IndexedOutputs::get; "None" when the index is not declared.
OutGet(o, io_idx) ==
    IF find_id(io_idx) = 0 THEN "None" ELSE o.state[find_id(io_idx)]

\* IndexedOutputs::toggle, after set returned r: Ok(!current) or Err
toggle_result(r, value) == [io |-> r.io, ok |-> r.ok, value |-> value]

\* IndexedOutputs::toggle on the output found at position (0: not found)
toggle_at(o, position) ==
    IF position = 0 THEN [io |-> o, ok |-> FALSE, value |-> FALSE]
    ELSE toggle_result(set_at(o, position, ~o.state[position]), ~o.state[position])

\* IndexedOutputs::toggle
toggle(o, io_idx) == toggle_at(o, find_id(io_idx))

\* IndexedOutputs::get_all
get_all(o) == [p \in 1..Len(indices) |-> <<indices[p], o.state[p]>>]

\* The level the hardware drives on the output at position, as an
\* active/inactive value (after active-low inversion)
driven_at(o, position) ==
    IF position = 0 THEN FALSE
    ELSE (IF (position - 1) \div 16 >= EXPANDER_N
          THEN o.native[position - 16 * EXPANDER_N]
          ELSE (position - 1) \in o.wire) # active_low(position)

\* The level driven on a declared output; FALSE for an undeclared index.
Driven(o, io_idx) == driven_at(o, find_id(io_idx))

----------------------------------------------------------------------------
(* Shutters: shutters.rs *)

HYSTERESIS == 5
HYSTERESIS_TILT == 15
COOLDOWN == 500
UPDATE_PERIOD == 1000
NOOP_UPDATE_PERIOD == 10000
MAX_SHUTTERS == 8

\* Config::new.  The measured travel times of the author's shutter are
\* 57260 ms; the modelled shutter is a faster one, so that a full travel
\* takes a few manager visits instead of about sixty.
rise_time == 3000
drop_time == 3000
tilt_time == 1500
over_time == 2000

\* Units per percent.  100 * HScale is a multiple of rise_time and of
\* drop_time (Config::new gives both the same value), 100 * TScale a
\* multiple of tilt_time, so that a millisecond of motion is a whole number
\* of units.
HScale == drop_time
TScale == tilt_time

\* Shutter::new.  The h_ fields are history, not program state:
\*   h_last  direction of the last finished movement ("none" | "Up" | "Down")
\*   h_rest  ms spent in Cooldown since the action last left Up/Down
\*           (saturates at COOLDOWN)
\*   h_prev, h_gap   h_last and h_rest at the start of the current movement
\*   h_cmd   last movement command taken, h_done: it ran to completion
\*   h_from  where the shutter was assumed to be when h_cmd was taken
\*           ("closed": (100, 100) | "open": (0, 0) | "between")
\*   h_run   ms the shutter has been in Up or Down since h_cmd was taken
\*           (counted up to tilt_time + rise_time + over_time)
\*   h_home  the command whose homing wrote the position ("none" | "Open" |
\*           "Close"), "again" once a second homing has written it
ShutterNew(up, down) ==
    [ up |-> up, down |-> down,
      height |-> 0, tilt |-> 0,
      target_height |-> 0, target_tilt |-> 0,
      action |-> "Sleep", since |-> 0,
      in_sync |-> FALSE,
      h_last |-> "none", h_rest |-> COOLDOWN, h_prev |-> "none", h_gap |-> COOLDOWN,
      h_cmd |-> "none", h_done |-> FALSE, h_from |-> "open", h_run |-> 0,
      h_home |-> "none" ]

\* Config::travel_as_time: (cost * diff / 100) as u64, in ms.
\* cost * diff / (100 * HScale) with the fraction reduced by cost.
travel_as_time(from, to) ==
    LET cost == IF from > to THEN drop_time ELSE rise_time
    IN  Abs(from - to) \div ((100 * HScale) \div cost)

\* Config::tilt_as_time
tilt_as_time(from, to) == (tilt_time * Abs(from - to)) \div (100 * TScale)

\* Config::time_as_tilt
time_as_tilt(elapsed) ==
    Clamp((100 * elapsed * TScale) \div tilt_time, 0, 100 * TScale)

\* Config::time_as_travel
time_as_travel(dir, elapsed) ==
    Clamp((100 * elapsed * HScale) \div (IF dir = 1 THEN drop_time ELSE rise_time),
          0, 100 * HScale)

\* Shutter::consume_tilt.  panic: the dev-time assert on final_tilt.
consume_tilt(sh) ==
    IF sh.action \notin {"Up", "Down"}
    THEN [tilt |-> sh.tilt, rest |-> 0, panic |-> FALSE]
    ELSE
      LET dir      == IF sh.action = "Up" THEN -1 ELSE 1
          max_tilt == IF sh.action = "Up" THEN 0 ELSE 100 * TScale
          max_time == tilt_as_time(sh.tilt, max_tilt)
          elapsed  == sh.since
      IN  IF elapsed >= max_time
          THEN [tilt |-> max_tilt, rest |-> elapsed - max_time, panic |-> FALSE]
          ELSE LET final_tilt == sh.tilt + dir * time_as_tilt(elapsed)
               IN  [ tilt  |-> Clamp(final_tilt, 0, 100 * TScale),
                     rest  |-> 0,
                     panic |-> ~(0 <= final_tilt /\ final_tilt <= 100 * TScale) ]

\* consume_height without the clamp to 0..100 (faulty variant)
consume_height_unclamped(sh, elapsed) ==
    IF sh.action \notin {"Up", "Down"} THEN sh.height
    ELSE LET dir == IF sh.action = "Up" THEN -1 ELSE 1
         IN  sh.height + dir * time_as_travel(dir, elapsed)

\* Shutter::consume_height
consume_height(sh, elapsed) ==
    IF sh.action \notin {"Up", "Down"} THEN sh.height
    ELSE LET dir == IF sh.action = "Up" THEN -1 ELSE 1
         IN  Clamp(sh.height + dir * time_as_travel(dir, elapsed), 0, 100 * HScale)

\* Shutter::go_idle
go_idle(sh, o) == OutSet(OutSet(o, sh.up, FALSE).io, sh.down, FALSE).io

\* Shutter::go_up / go_down after the opposite output was commanded
\* inactive with result r: the start is abandoned when that failed.
then_activate(r, io_idx) == IF ~r.ok THEN r.io ELSE OutSet(r.io, io_idx, TRUE).io

\* Shutter::go_up
go_up(sh, o) == then_activate(OutSet(o, sh.down, FALSE), sh.up)

\* Shutter::go_down
go_down(sh, o) == then_activate(OutSet(o, sh.up, FALSE), sh.down)

\* self.action = Action::Up(now) / Action::Down(now) from Idle or Sleep
BeginMove(sh, dir) ==
    [sh EXCEPT !.action = dir, !.since = 0, !.h_prev = sh.h_last, !.h_gap = sh.h_rest]

\* self.action = Action::Cooldown(now) from Up or Down
BeginCooldown(sh) ==
    [sh EXCEPT !.action = "Cooldown", !.since = 0, !.h_last = sh.action, !.h_rest = 0]

\* a cooldown that is over at once (faulty variant)
CooldownSkipped(elapsed) == elapsed >= 0

\* Shutter::update, Cooldown arm: the cooldown is over
CooldownOver(elapsed) == elapsed >= COOLDOWN

\* Up movement stopped on the height alone (faulty variant)
UpAchievedByHeight(sh) == sh.height <= sh.target_height

\* Shutter::update, Up arm: height and tilt achieved
UpAchieved(sh) == sh.height <= sh.target_height /\ sh.tilt <= sh.target_tilt

\* Shutter::update, Down arm: height and tilt achieved
DownAchieved(sh) == sh.height >= sh.target_height /\ sh.tilt >= sh.target_tilt

\* Shutter::update, step II on the shutter with its position refreshed
update_action(p, o) ==
    CASE p.action \in {"Idle", "Sleep"} ->
            LET height_diff == Abs(p.target_height - p.height)
                tilt_diff   == Abs(p.target_tilt - p.tilt)
            IN  IF height_diff > HYSTERESIS * HScale
                THEN IF p.target_height < p.height
                     THEN [sh |-> BeginMove(p, "Up"), io |-> go_up(p, o), dur |-> 0, panic |-> FALSE ]
                     ELSE [sh |-> BeginMove(p, "Down"), io |-> go_down(p, o), dur |-> 0, panic |-> FALSE ]
                ELSE IF tilt_diff > HYSTERESIS_TILT * TScale
                THEN IF p.target_tilt < p.tilt
                     THEN [sh |-> BeginMove(p, "Up"), io |-> go_up(p, o), dur |-> 0, panic |-> FALSE ]
                     ELSE [sh |-> BeginMove(p, "Down"), io |-> go_down(p, o), dur |-> 0, panic |-> FALSE ]
                ELSE [ sh  |-> [p EXCEPT !.action = "Sleep", !.since = 0, !.h_done = TRUE],
                       io  |-> o, dur |-> NOOP_UPDATE_PERIOD, panic |-> FALSE ]
      [] p.action = "Cooldown" ->
            IF CooldownOver(p.since)
            THEN [sh |-> [p EXCEPT !.action = "Idle", !.since = 0], io |-> o, dur |-> 0, panic |-> FALSE ]
            ELSE [sh |-> p, io |-> o, dur |-> COOLDOWN - p.since, panic |-> FALSE ]
      [] p.action = "Up" ->
            IF p.height <= p.target_height
            THEN IF UpAchieved(p)
                 THEN [ sh  |-> [BeginCooldown(p) EXCEPT !.h_done = TRUE],
                        io  |-> go_idle(p, o), dur |-> COOLDOWN, panic |-> FALSE ]
                 ELSE [ sh |-> [p EXCEPT !.since = 0], io |-> o,
                        dur |-> tilt_as_time(p.tilt, p.target_tilt), panic |-> FALSE ]
            ELSE [ sh |-> [p EXCEPT !.since = 0], io |-> o,
                   dur |-> travel_as_time(p.height, p.target_height), panic |-> FALSE ]
      [] p.action = "Down" ->
            IF p.height >= p.target_height
            THEN IF DownAchieved(p)
                 THEN [ sh  |-> [BeginCooldown(p) EXCEPT !.h_done = TRUE],
                        io  |-> go_idle(p, o), dur |-> COOLDOWN, panic |-> FALSE ]
                 ELSE [ sh |-> [p EXCEPT !.since = 0], io |-> o,
                        dur |-> tilt_as_time(p.tilt, p.target_tilt), panic |-> FALSE ]
            ELSE [ sh |-> [p EXCEPT !.since = 0], io |-> o,
                   dur |-> travel_as_time(p.height, p.target_height), panic |-> FALSE ]

\* Shutter::update(now): [sh, io, dur, panic]
update(sh, o) ==
    LET t == consume_tilt(sh) IN
    IF t.panic THEN [sh |-> sh, io |-> o, dur |-> 0, panic |-> TRUE]
    ELSE update_action([sh EXCEPT !.tilt = t.tilt, !.height = consume_height(sh, t.rest)], o)

\* a finish that leaves the movement running (faulty variant)
finish_nothing(sh, o) == [sh |-> sh, io |-> o]

\* Shutter::finish(now): [sh, io]
finish(sh, o) ==
    IF sh.action \in {"Up", "Down"}
    THEN [sh |-> BeginCooldown(sh), io |-> go_idle(sh, o)]
    ELSE [sh |-> sh, io |-> o]

\* Shutter::set_target(now, target): [sh, io, dur, panic]
set_target(sh, o, target) ==
    IF sh.action \in {"Up", "Down"}
    THEN [sh |-> sh, io |-> o, dur |-> 0, panic |-> TRUE]
    ELSE update([sh EXCEPT !.action = IF @ = "Sleep" THEN "Idle" ELSE @,
                           !.target_height = target.height,
                           !.target_tilt = target.tilt], o)

\* the assumed position is written; cmd is the command that writes it
homed_to(sh, height, tilt, cmd) ==
    [sh EXCEPT !.height = height * HScale, !.tilt = tilt * TScale, !.in_sync = TRUE,
               !.h_home = IF @ = "none" THEN cmd ELSE "again"]

\* homing that does not look at in_sync (faulty variant)
HomedAlways(sh, height, tilt) ==
    homed_to(sh, height, tilt, IF height = 0 THEN "Close" ELSE "Open")

\* Position::new(100, 100) / Position::new_zero() as assumed positions
Homed(sh, height, tilt) ==
    IF sh.in_sync THEN sh
    ELSE homed_to(sh, height, tilt, IF height = 0 THEN "Close" ELSE "Open")

\* Shutter::command: the target position of a movement command
\* (computed after the homing of Open/Close)
cmd_target(sh, cmd) ==
    CASE cmd.c = "Go"          -> [height |-> cmd.a * HScale, tilt |-> cmd.b * TScale]
      [] cmd.c = "Open"        -> [height |-> 0, tilt |-> 0]
      [] cmd.c = "Close"       -> [height |-> 100 * HScale, tilt |-> 100 * TScale]
      [] cmd.c = "TiltClose"   -> [height |-> sh.height, tilt |-> 100 * TScale]
      [] cmd.c = "TiltOpen"    -> [height |-> sh.height, tilt |-> 0]
      [] cmd.c = "TiltHalf"    -> [height |-> sh.height, tilt |-> 50 * TScale]
      [] cmd.c = "TiltReverse" -> [height |-> sh.height,
                                   tilt |-> IF sh.tilt >= 50 * TScale THEN 0 ELSE 100 * TScale]
      [] cmd.c = "Tilt"        -> [height |-> sh.height, tilt |-> cmd.a * TScale]

\* the end of the travel the shutter is assumed to be at
Assumed(sh) ==
    IF sh.height = 100 * HScale /\ sh.tilt = 100 * TScale THEN "closed"
    ELSE IF sh.height = 0 /\ sh.tilt = 0 THEN "open" ELSE "between"

\* Shutter::command, after the previous action was updated and finished
command_apply(sh, o, cmd) ==
    IF cmd.c = "SetIO"
    THEN IF sh.action # "Sleep"
         THEN [sh |-> sh, io |-> o, panic |-> TRUE]
         ELSE [sh |-> [sh EXCEPT !.down = cmd.a, !.up = cmd.b], io |-> o, panic |-> FALSE]
    ELSE LET homed == CASE cmd.c = "Open"  -> Homed(sh, 100, 100)
                        [] cmd.c = "Close" -> Homed(sh, 0, 0)
                        [] OTHER           -> sh
         IN  set_target([homed EXCEPT !.h_cmd = cmd.c, !.h_done = FALSE, !.h_run = 0,
                                      !.h_from = Assumed(homed)],
                        o, cmd_target(homed, cmd))

\* Shutter::command, after finish() returned f
command_finished(f, cmd) == command_apply(f.sh, f.io, cmd)

\* Shutter::command, after update() returned u
command_updated(u, cmd) ==
    IF u.panic THEN u ELSE command_finished(finish(u.sh, u.io), cmd)

\* Shutter::command(cmd, now): [sh, io, panic]
command(sh, o, cmd) ==
    IF sh.action # "Sleep"
    THEN command_updated(update(sh, o), cmd)
    ELSE command_apply(sh, o, cmd)

\* Manager::on_mount, the for loop: the shutter at i was updated with result r
visited(acc, i, r) ==
    [ shutters     |-> [acc.shutters EXCEPT ![i] = r.sh],
      io           |-> r.io,
      min_duration |-> Min(r.dur, acc.min_duration),
      all_sleep    |-> FALSE,
      panic        |-> r.panic ]

\* Manager::on_mount, the for loop over the shutters from index i on.
\* acc = [shutters, io, min_duration, all_sleep, panic]
RECURSIVE scan(_, _)
scan(i, acc) ==
    IF i = MAX_SHUTTERS \/ acc.panic THEN acc
    ELSE IF acc.shutters[i].action = "Sleep" THEN scan(i + 1, acc)
    ELSE scan(i + 1, visited(acc, i, update(acc.shutters[i], acc.io)))

\* Manager::on_mount, after the for loop: the wait of the select()
settle(r) ==
    [ shutters |-> r.shutters, io |-> r.io, panic |-> r.panic,
      wait |-> IF ~r.all_sleep /\ r.min_duration > UPDATE_PERIOD
               THEN UPDATE_PERIOD ELSE r.min_duration ]

\* Manager::on_mount, one loop iteration up to the select(): the shutters
\* are revisited and the wait is computed.
revisit(shs, o) ==
    settle(scan(0, [ shutters |-> shs, io |-> o, min_duration |-> NOOP_UPDATE_PERIOD,
                     all_sleep |-> TRUE, panic |-> FALSE ]))

\* d milliseconds pass: every stored Instant is d further in the past.
Elapse(shs, d) ==
    [i \in DOMAIN shs |->
        [shs[i] EXCEPT
            !.since  = IF shs[i].action \in {"Up", "Down", "Cooldown"} THEN @ + d ELSE @,
            !.h_run  = IF shs[i].action \in {"Up", "Down"}
                       THEN Min(@ + d, tilt_time + rise_time + over_time) ELSE @,
            !.h_rest = IF shs[i].action = "Cooldown" THEN Min(@ + d, COOLDOWN) ELSE @]]

----------------------------------------------------------------------------
(* Bounds and inputs of the shutter specification *)

\* both outputs of the shutter are declared outputs of the board
Configured(sh) == find_id(sh.up) # 0 /\ find_id(sh.down) # 0

\* I2C write errors the environment may inject in one run
MaxFaults == 1
\* Shutters that receive commands
CmdShutters == {0}
\* Delay of a command after the last revisit, in ms (limited by the wait)
CmdDelays == {0, 500}
\* Commands sent
Cmd(c, a, b) == [c |-> c, a |-> a, b |-> b]
Cmds ==
    { Cmd("Open", 0, 0), Cmd("Close", 0, 0), Cmd("Go", 200, 200),
      Cmd("TiltReverse", 0, 0), Cmd("SetIO", 13, 14) }

\* Timer::after(d): the timer fires d ms later (a latency below one
\* millisecond is lost in as_millis()).
TimerDelays(d) == {d}

\* The sets of failing writes the environment may choose for a handler that
\* makes n writes when none fails.
FailSets(n) == {F \in SUBSET (1..n) : Cardinality(F) <= MaxFaults - faults}

\* Manager::on_mount, Either::Second: the timer fired after d ms and the
\* shutters are revisited.  F: the I2C writes that fail.
on_timeout(d, F) == revisit(Elapse(shutters, d), IoBegin(io, F))

\* Manager::on_mount, Either::First, after shutter.command() returned c:
\* the loop goes round and the shutters are revisited (not after a panic).
commanded(aged, idx, c) ==
    IF c.panic
    THEN [ shutters |-> [aged EXCEPT ![idx] = c.sh], io |-> c.io,
           panic |-> TRUE, wait |-> wait ]
    ELSE revisit([aged EXCEPT ![idx] = c.sh], c.io)

\* Manager::on_mount, Either::First on shutters whose instants have aged:
\* self.shutters[shutter_idx as usize] panics on an index out of bounds
deliver(aged, idx, cmd, F) ==
    IF idx >= MAX_SHUTTERS
    THEN [ shutters |-> aged, io |-> IoBegin(io, F), panic |-> TRUE, wait |-> wait ]
    ELSE commanded(aged, idx, command(aged[idx], IoBegin(io, F), cmd))

\* Manager::on_mount, Either::First: a command arrived d ms after the last
\* revisit, is handed to its shutter and the shutters are revisited.
on_command(idx, cmd, d, F) == deliver(Elapse(shutters, d), idx, cmd, F)

\* the manager's state after a loop iteration
ManagerStep(r, input) ==
    /\ \A n \in r.io.failing : n <= r.io.calls
    /\ delivered' = input
    /\ UNCHANGED <<vm, pressed, bus, drv, codec, can, exp, buttons, status,
                   cpu, lock, sys>>
    /\ shutters' = r.shutters
    /\ io' = IoEnd(r.io)
    /\ faults' = faults + Cardinality(r.io.failing)
    /\ mgr' = IF r.panic THEN "panic" ELSE "run"
    /\ wait' = IF r.panic THEN wait ELSE r.wait

ManagerTimeout ==
    /\ mgr = "run"
    /\ \E d \in TimerDelays(wait) :
          \E F \in FailSets(on_timeout(d, {}).io.calls) :
              ManagerStep(on_timeout(d, F), [idx |-> 0, cmd |-> Cmd("Timeout", 0, 0)])

ManagerCommand ==
    /\ mgr = "run"
    /\ \E idx \in CmdShutters, cmd \in Cmds, d \in CmdDelays :
          /\ d <= wait
          /\ \E F \in FailSets(on_command(idx, cmd, d, {}).io.calls) :
                ManagerStep(on_command(idx, cmd, d, F), [idx |-> idx, cmd |-> cmd])

ShutterInit ==
    /\ shutters = [i \in 0..(MAX_SHUTTERS - 1) |-> ShutterNew(OUT_MAX, OUT_MAX)]
    /\ io = IoInit
    /\ wait = NOOP_UPDATE_PERIOD
    /\ mgr = "run"
    /\ delivered = [idx |-> 0, cmd |-> Cmd("None", 0, 0)]
    /\ faults = 0

ShutterNext == ManagerTimeout \/ ManagerCommand

\* Commands decoded from the bus: Cmd::from_raw takes any byte as height
\* and tilt
TravelCmds ==
    { Cmd("SetIO", 13, 14), Cmd("Go", 0, 0), Cmd("Go", 100, 100), Cmd("Go", 50, 255),
      Cmd("Go", 255, 0), Cmd("Tilt", 255, 0), Cmd("Open", 0, 0) }

\* Manager::on_mount, Either::Second, with no I2C error
TravelTimeout ==
    /\ mgr = "run"
    /\ ManagerStep(on_timeout(wait, {}), [idx |-> 0, cmd |-> Cmd("Timeout", 0, 0)])

\* Manager::on_mount, Either::First, with no I2C error
TravelCommand ==
    /\ mgr = "run"
    /\ \E idx \in CmdShutters, cmd \in TravelCmds :
          ManagerStep(on_command(idx, cmd, 0, {}), [idx |-> idx, cmd |-> cmd])

TravelNext == TravelTimeout \/ TravelCommand

----------------------------------------------------------------------------
(* Binding engine: microvm.rs.  bindings.rs and layers.rs are not among the *)
(* sources; BindingList and Layers follow the specification document.      *)

MAX_PROCEDURES == 128
REGISTERS == 32
MAX_LAYERS == 128
MAX_LAYER_STACK == 5
MAX_STACK == 3

\* Opcode, Action / Command, Binding, Event and Message values
\* (BindShutter(idx, down, up) is Op("BindShutter", idx, 256 * down + up))
Op(o, a, b) == [o |-> o, a |-> a, b |-> b]
Act(kind, a, b) == [kind |-> kind, a |-> a, b |-> b]
MkBinding(idx, trigger, layer, action) ==
    [idx |-> idx, trigger |-> trigger, layer |-> layer, action |-> action]
Ev(kind, a, trigger) == [kind |-> kind, a |-> a, trigger |-> trigger]
Msg(kind, a, b) == [kind |-> kind, a |-> a, b |-> b]

\* Option::None of BindingList::filter
NoBinding == MkBinding(0, "None", 0, Act("None", 0, 0))

\* BindingList: two bindings with the same (input, layer, trigger)
same_triple(x, y) == x.idx = y.idx /\ x.layer = y.layer /\ x.trigger = y.trigger

\* BindingList::bind: a binding of the same triple is replaced
bind(bs, b) ==
    IF \E k \in 1..Len(bs) : same_triple(bs[k], b)
    THEN [k \in 1..Len(bs) |-> IF same_triple(bs[k], b) THEN b ELSE bs[k]]
    ELSE Append(bs, b)

\* BindingList::filter(idx, Some(layer), Some(trigger)): the first match
filter(bs, idx, layer, trigger) ==
    LET hits == {k \in 1..Len(bs) :
                    bs[k].idx = idx /\ bs[k].layer = layer /\ bs[k].trigger = trigger}
    IN  IF hits = {} THEN NoBinding
        ELSE bs[CHOOSE k \in hits : \A j \in hits : k <= j]

\* Layers.current: the layer on top of the stack, the default layer when empty
current(ls) == IF ls = <<>> THEN 0 ELSE ls[Len(ls)].layer

\* Layers::activate.  The document bounds the stack by MAX_LAYER_STACK and
\* says nothing of a push on a full stack: the environment's choice m.ovf
\* makes it either ignored or a panic.
activate(m, anchor, layer) ==
    IF Len(m.layers) >= MAX_LAYER_STACK
    THEN [m EXCEPT !.status = IF m.ovf = "panic" THEN "panic" ELSE @]
    ELSE [m EXCEPT !.layers = Append(@, [anchor |-> anchor, layer |-> layer])]

\* Layers::maybe_deactivate, the result: the top entry is anchored to anchor
top_anchored(ls, anchor) == ls # <<>> /\ ls[Len(ls)].anchor = anchor

\* Layers::maybe_deactivate, the stack: the top is popped when anchored
maybe_deactivate(ls, anchor) ==
    IF top_anchored(ls, anchor) THEN SubSeq(ls, 1, Len(ls) - 1) ELSE ls

\* Executor::new.  event/dispatched/shut/tx describe the last handler, ran
\* the opcodes it executed, each with its position in the program,
\* last_bind the last opcode that changed the binding table and the layer
\* that was current then.
VmNew ==
    [ layers     |-> <<>>,
      bindings   |-> <<>>,
      opcodes    |-> <<>>,
      procedures |-> [p \in 0..(MAX_PROCEDURES - 1) |-> 1],
      registers  |-> [r \in 0..(REGISTERS - 1) |-> 0],
      status     |-> "new",
      event      |-> Ev("None", 0, "None"),
      dispatched |-> Act("None", 0, 0),
      shut       |-> <<>>,
      tx         |-> <<>>,
      alters     |-> <<>>,
      errs       |-> 0,
      ran        |-> <<>>,
      last_bind  |-> [op |-> Op("None", 0, 0), layer |-> 0] ]

\* A handler starts on the Executor and the board's outputs; ovf is the
\* outcome of a push on a full layer stack.
Frame(v, o, event, ovf) ==
    [ layers |-> v.layers, bindings |-> v.bindings, opcodes |-> v.opcodes,
      procedures |-> v.procedures, registers |-> v.registers,
      status |-> v.status, event |-> event,
      dispatched |-> Act("None", 0, 0), shut |-> <<>>, tx |-> <<>>,
      alters |-> <<>>, errs |-> 0, ran |-> <<>>,
      last_bind |-> v.last_bind, io |-> IoBegin(o, {}), ovf |-> ovf ]

\* The handler starts with the I2C writes F failing
FrameF(v, o, event, ovf, F) == [Frame(v, o, event, ovf) EXCEPT !.io = IoBegin(o, F)]

\* panic!, assert!, todo!, index out of bounds
Panic(m) == [m EXCEPT !.status = "panic"]

\* Executor::emit_io_message: transmit_response(OutputChanged, Drop)
emit_io_message(m, out, final_state) ==
    [m EXCEPT !.tx = Append(@, Msg("OutputChanged", out, final_state))]

\* history: the board was called for output out and returned r; cached is
\* what IndexedOutputs::get answers for out after the call
called(m, r, out) ==
    [m EXCEPT !.io = r.io,
              !.alters = Append(@, [out |-> out, ok |-> r.ok, cached |-> OutGet(r.io, out)])]

\* status::COUNTERS.expander_output_error.inc() (errs: the increments made
\* by the running handler)
expander_output_error(m) == [m EXCEPT !.errs = @ + 1]

\* alter_output that reports the change whatever the board returned
\* (faulty variant)
altered_always_emits(m, r, out, final_state) ==
    emit_io_message(called(m, r, out), out, final_state)

\* Executor::alter_output, after the board returned r for the state final_state
altered(m, r, out, final_state) ==
    IF r.ok THEN emit_io_message(called(m, r, out), out, final_state)
    ELSE expander_output_error(called(m, r, out))

\* IndexedOutputs::toggle: the new state of the output (FALSE when unknown)
toggled(o, io_idx) == IF find_id(io_idx) = 0 THEN FALSE ELSE ~o.state[find_id(io_idx)]

\* Executor::alter_output
alter_output(m, kind, out) ==
    CASE kind = "ToggleOutput" ->
            altered(m, OutSet(m.io, out, toggled(m.io, out)), out, toggled(m.io, out))
      [] kind = "ActivateOutput" -> altered(m, OutSet(m.io, out, TRUE), out, TRUE)
      [] kind = "DeactivateOutput" -> altered(m, OutSet(m.io, out, FALSE), out, FALSE)


\* bind_single that always binds on the default layer (faulty variant)
bind_single_on_default(m, idx, trigger, cmd) ==
    [m EXCEPT !.bindings = bind(@, MkBinding(idx, trigger, 0, cmd))]

\* Executor::bind_proc
bind_proc(m, idx, trigger, proc_idx) ==
    [m EXCEPT !.bindings =
        bind(@, MkBinding(idx, trigger, current(m.layers), Act("Proc", proc_idx, 0)))]

\* Executor::bind_single
bind_single(m, idx, trigger, cmd) ==
    [m EXCEPT !.bindings = bind(@, MkBinding(idx, trigger, current(m.layers), cmd))]

\* history: opcode changed the binding table while layer was current
noted(m, opcode, layer) == [m EXCEPT !.last_bind = [op |-> opcode, layer |-> layer]]

\* Executor::execute: stack_idx == MAX_STACK
stack_full_early(stack) == Len(stack) >= MAX_STACK - 1
stack_full(stack) == Len(stack) = MAX_STACK

\* Executor::execute: stack[stack_idx] = pc; stack_idx += 1 (jumped: the
\* faulty variant that keeps no return address)
jumped(stack, pc) == stack
pushed(stack, pc) == Append(stack, pc)

\* MicroState::Continue / Stop / CallProc(proc)
Continue(m) == [m |-> m, state |-> "Continue", proc |-> 0]

\* The trigger a Bind*Call opcode binds
call_trigger(o) ==
    CASE o = "BindShortCall"      -> "ShortClick"
      [] o = "BindLongCall"       -> "LongClick"
      [] o = "BindActivateCall"   -> "Activated"
      [] o = "BindDeactivateCall" -> "Deactivated"
      [] o = "BindLongActivate"   -> "LongActivated"
      [] o = "BindLongDeactivate" -> "LongDeactivated"

\* CallRegister that calls the procedure of the register's index (faulty
\* variant)
call_register_index(m, register) ==
    IF register >= REGISTERS THEN Continue(Panic(m))
    ELSE [m |-> m, state |-> "CallProc", proc |-> register]

\* Executor::execute_opcode, Opcode::CallRegister(register)
call_register(m, register) ==
    IF register >= REGISTERS THEN Continue(Panic(m))
    ELSE [m |-> m, state |-> "CallProc", proc |-> m.registers[register]]

\* Executor::execute_opcode, Opcode::SetRegister(register, value)
set_register(m, register, value) ==
    IF register >= REGISTERS THEN Continue(Panic(m))
    ELSE Continue([m EXCEPT !.registers[register] = value])

\* Executor::execute_opcode.  SendStatus is not modelled; it occurs in no
\* program of Programs.
execute_opcode(m, opcode) ==
    CASE opcode.o = "Noop" -> Continue(m)
      [] opcode.o = "Stop" -> [m |-> m, state |-> "Stop", proc |-> 0]
      [] opcode.o = "Start" -> Continue(Panic(m))
      [] opcode.o = "Call" -> [m |-> m, state |-> "CallProc", proc |-> opcode.a]
      [] opcode.o = "CallRegister" -> call_register(m, opcode.a)
      [] opcode.o = "SetRegister" -> set_register(m, opcode.a, opcode.b)
      [] opcode.o = "Toggle" -> Continue(alter_output(m, "ToggleOutput", opcode.a))
      [] opcode.o = "Activate" -> Continue(alter_output(m, "ActivateOutput", opcode.a))
      [] opcode.o = "Deactivate" -> Continue(alter_output(m, "DeactivateOutput", opcode.a))
      [] opcode.o = "LayerPush" ->
            IF opcode.a > MAX_LAYERS THEN Continue(Panic(m))
            ELSE Continue(activate(m, 0, opcode.a))
      [] opcode.o = "LayerPop" ->
            Continue([m EXCEPT !.layers = maybe_deactivate(@, 0)])
      [] opcode.o = "LayerSet" ->
            Continue(activate([m EXCEPT !.layers = <<>>], 0, opcode.a))
      [] opcode.o = "LayerDefault" -> Continue([m EXCEPT !.layers = <<>>])
      [] opcode.o = "BindClearAll" ->
            Continue(noted([m EXCEPT !.bindings = <<>>], opcode, current(m.layers)))
      [] opcode.o \in {"BindShortCall", "BindLongCall", "BindActivateCall",
                       "BindDeactivateCall", "BindLongActivate", "BindLongDeactivate"} ->
            Continue(noted(bind_proc(m, opcode.a, call_trigger(opcode.o), opcode.b),
                           opcode, current(m.layers)))
      [] opcode.o = "BindShortToggle" ->
            Continue(noted(bind_single(m, opcode.a, "ShortClick",
                                       Act("ToggleOutput", opcode.b, 0)),
                           opcode, current(m.layers)))
      [] opcode.o = "BindLongToggle" ->
            Continue(noted(bind_single(m, opcode.a, "LongClick",
                                       Act("ToggleOutput", opcode.b, 0)),
                           opcode, current(m.layers)))
      [] opcode.o = "BindLayerHold" ->
            Continue(noted(bind_single(m, opcode.a, "Activated",
                                       Act("ActivateLayer", opcode.b, 0)),
                           opcode, current(m.layers)))
      [] opcode.o = "BindShutter" ->
            Continue([m EXCEPT !.shut =
                         Append(@, [idx |-> opcode.a,
                                    cmd |-> Cmd("SetIO", opcode.b \div 256, opcode.b % 256)])])

\* history: the opcode at pc is about to be executed
fetched(m, pc) == [m EXCEPT !.ran = Append(@, [pc |-> pc, op |-> m.opcodes[pc]])]

\* Executor::execute, the loop from the opcode after pc on, with the call
\* stack (r: the outcome of the opcode just executed at pc).  The opcodes
\* after the program are Noop up to the end of the array, where the index
\* panics.
RECURSIVE run(_, _, _), advance(_, _, _)
run(m, pc, stack) ==
    IF m.status = "panic" THEN m
    ELSE IF pc + 1 > Len(m.opcodes) THEN Panic(m)
    ELSE advance(execute_opcode(fetched(m, pc + 1), m.opcodes[pc + 1]), pc + 1, stack)

advance(r, pc, stack) ==
    CASE r.state = "Continue" -> run(r.m, pc, stack)
      [] r.state = "Stop" ->
            IF stack = <<>> THEN r.m
            ELSE run(r.m, stack[Len(stack)], SubSeq(stack, 1, Len(stack) - 1))
      [] r.state = "CallProc" ->
            IF stack_full(stack) \/ r.proc >= MAX_PROCEDURES THEN Panic(r.m)
            ELSE run(r.m, r.m.procedures[r.proc], pushed(stack, pc))

\* Executor::execute
execute(m, proc) ==
    IF m.procedures[proc] > Len(m.opcodes) \/ m.opcodes[m.procedures[proc]] # Op("Start", proc, 0)
    THEN Panic(m)
    ELSE run(m, m.procedures[proc], <<>>)

\* Executor::index_code: the position of the last Start(p), the first
\* position when there is none
index_code(opcodes) ==
    [p \in 0..(MAX_PROCEDURES - 1) |->
        LET starts == {k \in 1..Len(opcodes) : opcodes[k] = Op("Start", p, 0)}
        IN  IF starts = {} THEN 1 ELSE CHOOSE k \in starts : \A j \in starts : j <= k]

\* Executor::load_static, after execute(0): finish on the default layer
loaded(m) == IF m.status = "panic" THEN m ELSE [m EXCEPT !.layers = <<>>]

\* Executor::load_static
load_static(m, program) ==
    loaded(execute([m EXCEPT !.opcodes = program, !.procedures = index_code(program),
                             !.status = "run"], 0))


\* parse_event that dispatches also for the release that popped a layer
\* (faulty variant)
never_suppressed(ls, event) == FALSE

\* Executor::parse_event: the Deactivated event that pops the layer its
\* input anchored returns early
suppressed(ls, event) == event.trigger = "Deactivated" /\ top_anchored(ls, event.a)

\* Executor::parse_event: the action of the binding found is carried out
dispatch(m, switch_id, action) ==
    CASE action.kind \in {"None", "Noop"} -> m
      [] action.kind = "ActivateLayer" -> activate(m, switch_id, action.a)
      [] action.kind = "DeactivateLayer" -> Panic(m)
      [] action.kind \in {"ToggleOutput", "ActivateOutput", "DeactivateOutput"} ->
            alter_output(m, action.kind, action.a)
      [] action.kind = "Shutter" ->
            [m EXCEPT !.shut = Append(@, [idx |-> action.a, cmd |-> action.b])]
      [] action.kind = "Proc" -> execute(m, action.a)

\* the binding of the current layer, else the one of the default layer
filter_or_default(bs, idx, layer, trigger) ==
    IF filter(bs, idx, layer, trigger) = NoBinding THEN filter(bs, idx, 0, trigger)
    ELSE filter(bs, idx, layer, trigger)

\* lookup that falls back to the default layer (faulty variant)
lookup_with_fallback(m, event) ==
    dispatch([m EXCEPT !.dispatched = filter_or_default(m.bindings, event.a, current(m.layers),
                                                        event.trigger).action],
             event.a,
             filter_or_default(m.bindings, event.a, current(m.layers), event.trigger).action)

\* Executor::parse_event, ButtonEvent: the binding of (input, current layer,
\* trigger) is looked up and dispatched (history: what was dispatched)
lookup(m, event) ==
    dispatch([m EXCEPT !.dispatched = filter(m.bindings, event.a, current(m.layers),
                                             event.trigger).action],
             event.a,
             filter(m.bindings, event.a, current(m.layers), event.trigger).action)

\* Executor::parse_event, ButtonEvent: the input change is broadcast,
\* transmit_response(InputChanged, Wait)
echo(m, event) ==
    IF m.status = "panic" THEN m
    ELSE [m EXCEPT !.tx = Append(@, Msg("InputChanged", event.a, event.trigger))]

\* Executor::parse_event.  RemoteStatusRequest (send_status) is not modelled;
\* it is not among RemoteEvents.
parse_event(m, event) ==
    CASE event.kind = "ButtonEvent" ->
            IF event.trigger = "Deactivated" /\ suppressed(m.layers, event)
            THEN [m EXCEPT !.layers = maybe_deactivate(@, event.a)]
            ELSE echo(lookup(m, event), event)
      [] event.kind = "RemoteProcedureCall" -> execute(m, event.a)
      [] event.kind = "RemoteToggle" -> alter_output(m, "ToggleOutput", event.a)
      [] event.kind = "RemoteActivate" -> alter_output(m, "ActivateOutput", event.a)
      [] event.kind = "RemoteDeactivate" -> alter_output(m, "DeactivateOutput", event.a)

----------------------------------------------------------------------------
(* Bounds and inputs of the binding engine specification *)

\* Opcodes of procedure 0 between Start(0) and Stop
MaxProg == 3
\* The opcodes procedure 0 is made of
BodyOps ==
    { Op("BindLayerHold", 1, 1), Op("BindLayerHold", 2, 2), Op("LayerPush", 1, 0),
      Op("BindDeactivateCall", 1, 1), Op("BindShortToggle", 1, 5),
      Op("BindShortCall", 1, 1), Op("BindClearAll", 0, 0) }
\* Procedure 1
Proc1 == << Op("Start", 1, 0), Op("Toggle", 5, 0), Op("Stop", 0, 0) >>
\* The programs loaded
Programs ==
    { <<Op("Start", 0, 0)>> \o body \o <<Op("Stop", 0, 0)>> \o Proc1 :
        body \in UNION {[1..n -> BodyOps] : n \in 0..MaxProg} }
\* The switches operated
Switches == {1, 2}
\* Events received from the bus
RemoteEvents == { Ev("RemoteProcedureCall", 1, "None"), Ev("RemoteToggle", 5, "None") }
\* Outcomes of a push on a full layer stack
Overflows == {"ignore", "panic"}

\* the Executor and the outputs after a handler
VmStep(m) ==
    /\ vm' = [ layers |-> m.layers, bindings |-> m.bindings, opcodes |-> m.opcodes,
               procedures |-> m.procedures, registers |-> m.registers,
               status |-> m.status, event |-> m.event, dispatched |-> m.dispatched,
               shut |-> m.shut, tx |-> m.tx, alters |-> m.alters, errs |-> m.errs,
               ran |-> m.ran, last_bind |-> m.last_bind ]
    /\ \A n \in m.io.failing : n <= m.io.calls
    /\ io' = IoEnd(m.io)
    /\ faults' = faults + Cardinality(m.io.failing)
    /\ UNCHANGED <<shutters, wait, mgr, delivered, bus, drv, codec, can, exp, buttons, status,
                   cpu, lock, sys>>

\* Executor::load_static(program), with the I2C writes F failing
on_load(program, ovf, F) ==
    load_static(FrameF(vm, io, Ev("Load", 0, "None"), ovf, F), program)

\* Executor::load_static(program) at start-up
VmLoad ==
    /\ vm.status = "new"
    /\ \E program \in Programs, ovf \in Overflows : VmStep(on_load(program, ovf, {}))
    /\ UNCHANGED pressed

\* The trigger the event converter sends for a short press in each state
\* of the switch, and the state that follows
next_trigger(state) ==
    CASE state = "up" -> "Activated" [] state = "down" -> "ShortClick"
      [] state = "clicked" -> "Deactivated"
next_pressed(state) ==
    CASE state = "up" -> "down" [] state = "down" -> "clicked" [] state = "clicked" -> "up"

\* Executor::listen_events on the next event of switch i, with the I2C
\* writes F failing
on_button(i, ovf, F) ==
    parse_event(FrameF(vm, io, Ev("ButtonEvent", i, next_trigger(pressed[i])), ovf, F),
                Ev("ButtonEvent", i, next_trigger(pressed[i])))

\* Executor::listen_events: a button event is received and parsed
VmButton ==
    /\ vm.status = "run"
    /\ \E i \in Switches, ovf \in Overflows :
          /\ VmStep(on_button(i, ovf, {}))
          /\ pressed' = [pressed EXCEPT ![i] = next_pressed(@)]

\* Executor::listen_events on a remote event, with the I2C writes F failing
on_remote(event, ovf, F) == parse_event(FrameF(vm, io, event, ovf, F), event)

\* Executor::listen_events: a remote event is received and parsed
VmRemote ==
    /\ vm.status = "run"
    /\ \E event \in RemoteEvents, ovf \in Overflows : VmStep(on_remote(event, ovf, {}))
    /\ UNCHANGED pressed

VmInit == vm = VmNew /\ pressed = [i \in Switches |-> "up"]

VmNext == VmLoad \/ VmButton \/ VmRemote

----------------------------------------------------------------------------
(* The binding engine driving outputs over a failing I2C bus *)

\* Procedure 2: three output opcodes, the last on an undeclared output
Proc2 ==
    << Op("Start", 2, 0), Op("Toggle", 5, 0), Op("Activate", 6, 0),
       Op("Deactivate", 99, 0), Op("Stop", 0, 0) >>
\* Opcodes of procedure 0 that bind outputs
OutputOps ==
    { Op("BindShortToggle", 1, 5), Op("BindShortCall", 1, 1), Op("BindShortCall", 2, 2) }
\* The programs loaded
OutputPrograms ==
    { <<Op("Start", 0, 0)>> \o body \o <<Op("Stop", 0, 0)>> \o Proc1 \o Proc2 :
        body \in UNION {[1..n -> OutputOps] : n \in 1..2} }
\* The remote events received
OutputEvents ==
    { Ev("RemoteProcedureCall", 2, "None"), Ev("RemoteToggle", 5, "None"),
      Ev("RemoteActivate", 5, "None"), Ev("RemoteDeactivate", 5, "None"),
      Ev("RemoteToggle", 51, "None"), Ev("RemoteDeactivate", 99, "None") }

\* Executor::load_static(program) at start-up
IoLoad ==
    /\ vm.status = "new"
    /\ \E program \in OutputPrograms :
          \E F \in FailSets(on_load(program, "ignore", {}).io.calls) :
              VmStep(on_load(program, "ignore", F))
    /\ UNCHANGED pressed

\* Executor::listen_events: a button event is received and parsed; the
\* environment chooses the I2C writes that fail
IoButton ==
    /\ vm.status = "run"
    /\ \E i \in Switches :
          /\ \E F \in FailSets(on_button(i, "ignore", {}).io.calls) :
                VmStep(on_button(i, "ignore", F))
          /\ pressed' = [pressed EXCEPT ![i] = next_pressed(@)]

\* Executor::listen_events: a remote event is received and parsed; the
\* environment chooses the I2C writes that fail
IoRemote ==
    /\ vm.status = "run"
    /\ \E event \in OutputEvents :
          \E F \in FailSets(on_remote(event, "ignore", {}).io.calls) :
              VmStep(on_remote(event, "ignore", F))
    /\ UNCHANGED pressed

OutputNext == IoLoad \/ IoButton \/ IoRemote

----------------------------------------------------------------------------
(* The binding engine stepping through procedures by a register *)

\* Procedure 4: calls the procedure register 0 names
ChainCall == << Op("Start", 4, 0), Op("CallRegister", 0, 0), Op("Stop", 0, 0) >>
\* Procedure 2: toggles output 5 and names procedure 3 as the next
ChainA ==
    << Op("Start", 2, 0), Op("Toggle", 5, 0), Op("SetRegister", 0, 3), Op("Stop", 0, 0) >>
\* Procedure 3: toggles output 6 and names procedure 2 as the next
ChainB ==
    << Op("Start", 3, 0), Op("Toggle", 6, 0), Op("SetRegister", 0, 2), Op("Stop", 0, 0) >>
\* Opcodes of procedure 0 that set registers and bind the procedures
RegisterOps ==
    { Op("SetRegister", 0, 2), Op("SetRegister", 0, 3), Op("SetRegister", 31, 3),
      Op("BindShortCall", 1, 4), Op("BindShortCall", 2, 3) }
\* the program with the bodies of procedure 0 .. 4
Chained(body) ==
    <<Op("Start", 0, 0)>> \o body \o <<Op("Stop", 0, 0)>> \o ChainCall \o ChainA \o ChainB
\* The programs loaded
RegisterPrograms == { Chained(body) : body \in UNION {[1..n -> RegisterOps] : n \in 1..3} }
\* The remote events received
RegisterEvents == { Ev("RemoteProcedureCall", 4, "None"), Ev("RemoteProcedureCall", 2, "None") }

\* Executor::load_static(program) at start-up
RegLoad ==
    /\ vm.status = "new"
    /\ \E program \in RegisterPrograms : VmStep(on_load(program, "ignore", {}))
    /\ UNCHANGED pressed

\* Executor::listen_events: a button event is received and parsed
RegButton ==
    /\ vm.status = "run"
    /\ \E i \in Switches :
          /\ VmStep(on_button(i, "ignore", {}))
          /\ pressed' = [pressed EXCEPT ![i] = next_pressed(@)]

\* Executor::listen_events: a remote event is received and parsed
RegRemote ==
    /\ vm.status = "run"
    /\ \E event \in RegisterEvents : VmStep(on_remote(event, "ignore", {}))
    /\ UNCHANGED pressed

RegisterNext == RegLoad \/ RegButton \/ RegRemote

----------------------------------------------------------------------------
(* The Executor and the shutter manager on the same outputs *)

\* CtrlApp::configure, PROGRAM: the bindings of the switches 13 and 14 and
\* the shutter on the outputs 13 (down) and 14 (up)
PROGRAM ==
    << Op("Start", 0, 0), Op("BindShortToggle", 13, 13), Op("BindShortToggle", 14, 14),
       Op("BindShutter", 0, 256 * 13 + 14), Op("Stop", 0, 0) >>
\* The switches clicked
ShutterSwitches == {13, 14}
\* The movements commanded
InterlockCmds == { Cmd("Open", 0, 0), Cmd("Close", 0, 0) }

\* the ShutterCmd the program sent when it was loaded
configured(opcodes) ==
    { [idx |-> opcodes[k].a, cmd |-> Cmd("SetIO", opcodes[k].b \div 256, opcodes[k].b % 256)] :
        k \in {j \in 1..Len(opcodes) : opcodes[j].o = "BindShutter"} }

\* Executor::load_static(&PROGRAM)
InterlockLoad ==
    /\ vm.status = "new"
    /\ VmStep(on_load(PROGRAM, "ignore", {}))
    /\ UNCHANGED pressed

\* Manager::on_mount takes the SetIO the program sent
InterlockConfigure ==
    /\ mgr = "run" /\ vm.status = "run"
    /\ \E c \in configured(vm.opcodes) :
          /\ ~Configured(shutters[c.idx])
          /\ ManagerStep(on_command(c.idx, c.cmd, 0, {}), c)

\* Executor::listen_events: a short click of a switch is received
InterlockClick ==
    /\ vm.status = "run"
    /\ \E i \in ShutterSwitches :
          VmStep(parse_event(Frame(vm, io, Ev("ButtonEvent", i, "ShortClick"), "ignore"),
                             Ev("ButtonEvent", i, "ShortClick")))
    /\ UNCHANGED pressed

\* Manager::on_mount, Either::First: a movement is commanded
InterlockCommand ==
    /\ mgr = "run" /\ Configured(shutters[0])
    /\ \E cmd \in InterlockCmds :
          ManagerStep(on_command(0, cmd, 0, {}), [idx |-> 0, cmd |-> cmd])

InterlockNext ==
    InterlockLoad \/ InterlockConfigure \/ InterlockClick \/ InterlockCommand \/ TravelTimeout

----------------------------------------------------------------------------
(* Executor::execute, one opcode at a time *)

\* the loop has not started
CpuIdle == [m |-> VmNew, proc |-> 0, pc |-> 0, stack |-> <<>>, state |-> "idle"]

\* Executor::execute(proc) up to the loop: pc = procedures[proc], an empty
\* stack and the assertion on Start(proc)
execute_entered(m, proc) ==
    IF m.procedures[proc] > Len(m.opcodes) \/ m.opcodes[m.procedures[proc]] # Op("Start", proc, 0)
    THEN [m |-> Panic(m), proc |-> proc, pc |-> m.procedures[proc], stack |-> <<>>,
          state |-> "panic"]
    ELSE [m |-> m, proc |-> proc, pc |-> m.procedures[proc], stack |-> <<>>, state |-> "run"]

\* Executor::execute, the match on what execute_opcode returned for the
\* opcode at pc
execute_matched(c, r, pc) ==
    CASE r.m.status = "panic" -> [c EXCEPT !.m = r.m, !.state = "panic"]
      [] r.state = "Continue" -> [c EXCEPT !.m = r.m, !.pc = pc]
      [] r.state = "Stop" ->
            IF c.stack = <<>> THEN [c EXCEPT !.m = r.m, !.pc = pc, !.state = "done"]
            ELSE [c EXCEPT !.m = r.m, !.pc = c.stack[Len(c.stack)],
                           !.stack = SubSeq(c.stack, 1, Len(c.stack) - 1)]
      [] r.state = "CallProc" ->
            IF stack_full(c.stack) \/ r.proc >= MAX_PROCEDURES
            THEN [c EXCEPT !.m = Panic(r.m), !.state = "panic"]
            ELSE [c EXCEPT !.m = r.m, !.pc = r.m.procedures[r.proc],
                           !.stack = pushed(c.stack, pc)]

\* Executor::execute, one turn of the loop
execute_turn(c) ==
    IF c.pc + 1 > Len(c.m.opcodes) THEN [c EXCEPT !.m = Panic(c.m), !.state = "panic"]
    ELSE execute_matched(c, execute_opcode(c.m, c.m.opcodes[c.pc + 1]), c.pc + 1)

\* What a procedure body is made of: calls of procedures 0 .. 2, of a
\* procedure without Start, by register, a Start and a Stop
CallOps ==
    { Op("Noop", 0, 0), Op("Call", 0, 0), Op("Call", 1, 0), Op("Call", 2, 0), Op("Call", 3, 0),
      Op("CallRegister", 0, 0), Op("SetRegister", 0, 2), Op("Start", 1, 0), Op("Stop", 0, 0) }
\* How the last procedure ends
LastOps == { Op("Stop", 0, 0), Op("Noop", 0, 0) }
\* The programs executed: procedures 0, 1 and 2 with one opcode each
CallPrograms ==
    { << Op("Start", 0, 0), x, Op("Stop", 0, 0), Op("Start", 1, 0), y, Op("Stop", 0, 0),
         Op("Start", 2, 0), z, last >> : x \in CallOps, y \in CallOps, z \in CallOps,
                                          last \in LastOps }
\* The procedures executed
CallProcs == 0..3

\* the Executor with the program indexed, as load_static leaves it before
\* it executes procedure 0
indexed(program) ==
    [Frame(VmNew, io, Ev("Load", 0, "None"), "ignore")
        EXCEPT !.opcodes = program, !.procedures = index_code(program), !.status = "run"]

CpuStep(c) ==
    /\ cpu' = c
    /\ UNCHANGED <<shutters, io, wait, mgr, delivered, faults, vm, pressed, bus, drv, codec,
                   can, exp, buttons, status, lock, sys>>

\* Executor::execute(proc) is called on a loaded program
CpuExecute ==
    /\ cpu.state = "idle"
    /\ \E program \in CallPrograms, proc \in CallProcs :
          CpuStep(execute_entered(indexed(program), proc))

\* Executor::execute: the loop takes the next opcode
CpuTurn ==
    /\ cpu.state = "run"
    /\ CpuStep(execute_turn(cpu))

CpuInit == cpu = CpuIdle

CpuNext == CpuExecute \/ CpuTurn

----------------------------------------------------------------------------
(* Bus reader: message.rs and ctrl_app.rs.  The message.rs among the sources *)
(* has no branch that decodes a CALL_SHUTTER frame although the reader       *)
(* handles Message::ShutterCmd; that decoding follows the frame layout of    *)
(* the specification document and of Message::to_raw.                        *)

LOCAL_ADDRESS == 1
BROADCAST_ADDRESS == 63

ERROR == 2
OUTPUT_CHANGED == 4
INPUT_TRIGGERED == 5
SET_OUTPUT == 8
TRIGGER_INPUT == 9
CALL_PROC == 10
CALL_SHUTTER == 11
REQUEST_STATUS == 13
STATUS == 16
TIME_ANNOUNCEMENT == 17
INFO == 18
PONG == 29
PING == 30

\* MessageRaw: addr, msg_type, length and eight data bytes
MessageRaw(addr, msg_type, length, data) ==
    [addr |-> addr, msg_type |-> msg_type, length |-> length, data |-> data]

\* raw.data[k]
byte(raw, k) == raw.data[k + 1]

\* u16::from_le_bytes
from_le_bytes(lo, hi) == lo + 256 * hi

\* a decoded Message; kind "None" stands for Option::None
Message(kind, a, b, cmd) == [kind |-> kind, a |-> a, b |-> b, cmd |-> cmd]
NoMessage == Message("None", 0, 0, Cmd("None", 0, 0))

\* args::OutputState::from_u8
OutputState_from_u8(b) ==
    CASE b = 0 -> "Off" [] b = 1 -> "On" [] b = 2 -> "Toggle" [] OTHER -> "None"

\* args::Trigger::from_u8
Trigger_from_u8(b) ==
    CASE b = 0 -> "ShortClick" [] b = 1 -> "LongClick" [] b = 2 -> "Activated"
      [] b = 3 -> "Deactivated" [] b = 4 -> "LongActivated"
      [] b = 5 -> "LongDeactivated" [] OTHER -> "None"

\* Cmd::from_raw on the five bytes raw.data[1..6]
Cmd_from_raw(code, a, b) ==
    CASE code = 1 -> Cmd("Go", a, b)
      [] code = 2 -> Cmd("Open", 0, 0)
      [] code = 3 -> Cmd("Close", 0, 0)
      [] code = 4 -> Cmd("Tilt", a, 0)
      [] code = 5 -> Cmd("Close", 0, 0)
      [] code = 6 -> Cmd("TiltOpen", 0, 0)
      [] code = 7 -> Cmd("TiltHalf", 0, 0)
      [] code = 8 -> Cmd("TiltReverse", 0, 0)
      [] code = 16 -> Cmd("SetIO", a, b)
      [] OTHER -> Cmd("None", 0, 0)

\* the decoded shutter command as a Message, None when the code is unknown
shutter_message(shutter_idx, cmd) ==
    IF cmd.c = "None" THEN NoMessage ELSE Message("ShutterCmd", shutter_idx, 0, cmd)

\* Message::from_raw, CALL_SHUTTER: shutter, cmd_code, a, b, 0, 0, 0
from_raw_shutter(raw) ==
    IF raw.length # 7 THEN NoMessage
    ELSE shutter_message(byte(raw, 0),
                         Cmd_from_raw(byte(raw, 1), byte(raw, 2), byte(raw, 3)))

\* Some(message) unless the argument did not parse (the ? operator)
parsed(kind, a, arg) ==
    IF arg = "None" THEN NoMessage ELSE Message(kind, a, arg, Cmd("None", 0, 0))

\* Message::from_raw
from_raw(raw) ==
    CASE raw.msg_type = SET_OUTPUT ->
            IF raw.length # 2 THEN NoMessage
            ELSE parsed("SetOutput", byte(raw, 0), OutputState_from_u8(byte(raw, 1)))
      [] raw.msg_type = TRIGGER_INPUT ->
            IF raw.length # 2 THEN NoMessage
            ELSE parsed("TriggerInput", byte(raw, 0), Trigger_from_u8(byte(raw, 1)))
      [] raw.msg_type = CALL_PROC ->
            IF raw.length # 1 THEN NoMessage
            ELSE Message("CallProcedure", byte(raw, 0), 0, Cmd("None", 0, 0))
      [] raw.msg_type = CALL_SHUTTER -> from_raw_shutter(raw)
      [] raw.msg_type = TIME_ANNOUNCEMENT ->
            IF raw.length # 8 THEN NoMessage
            ELSE Message("TimeAnnouncement", from_le_bytes(byte(raw, 0), byte(raw, 1)),
                         byte(raw, 7), Cmd("None", 0, 0))
      [] raw.msg_type = REQUEST_STATUS ->
            Message("RequestStatus", 0, 0, Cmd("None", 0, 0))
      [] raw.msg_type = PING ->
            Message("Ping", from_le_bytes(byte(raw, 0), byte(raw, 1)), 0, Cmd("None", 0, 0))
      [] raw.msg_type = PONG ->
            Message("Pong", from_le_bytes(byte(raw, 0), byte(raw, 1)), 0, Cmd("None", 0, 0))
      [] OTHER -> NoMessage

\* task_read_interconnect: "Are we the addressee?"
to_us(raw) == raw.addr = LOCAL_ADDRESS \/ raw.addr = BROADCAST_ADDRESS

\* what the reader does with one frame: the event sent to EVENT_CHANNEL, the
\* command sent to the shutters channel, the reply transmitted, the clock set
Effect(raw, message, event, shutter, reply, clock) ==
    [ raw |-> raw, message |-> message.kind, event |-> event, shutter |-> shutter,
      reply |-> reply, clock |-> clock ]
NoEvent == [kind |-> "None", arg |-> 0]
NoShutter == [sent |-> FALSE, idx |-> 0, cmd |-> Cmd("None", 0, 0)]
NoReply == [kind |-> "None", body |-> 0]
Ignored(raw, message) == Effect(raw, message, NoEvent, NoShutter, NoReply, FALSE)

\* task_read_interconnect, Message::SetOutput: the event of the requested state
output_event(state, output) ==
    [ kind |-> CASE state = "On" -> "RemoteActivate" [] state = "Off" -> "RemoteDeactivate"
                 [] state = "Toggle" -> "RemoteToggle",
      arg |-> output ]

\* task_read_interconnect: match message { ... }
handle(raw, message) ==
    CASE message.kind = "None" -> Ignored(raw, message)
      [] message.kind \in {"CallProcedure", "TriggerInput"} -> Ignored(raw, message)
      [] message.kind = "SetOutput" ->
            IF ~to_us(raw) THEN Ignored(raw, message)
            ELSE Effect(raw, message, output_event(message.b, message.a),
                        NoShutter, NoReply, FALSE)
      [] message.kind = "TimeAnnouncement" ->
            IF to_us(raw) \/ message.b > 6 THEN Ignored(raw, message)
            ELSE Effect(raw, message, NoEvent, NoShutter, NoReply, TRUE)
      [] message.kind = "ShutterCmd" ->
            Effect(raw, message, NoEvent,
                   [sent |-> TRUE, idx |-> message.a, cmd |-> message.cmd], NoReply, FALSE)
      [] message.kind = "RequestStatus" ->
            IF ~to_us(raw) THEN Ignored(raw, message)
            ELSE Effect(raw, message, [kind |-> "RemoteStatusRequest", arg |-> 0],
                        NoShutter, NoReply, FALSE)
      [] message.kind = "Ping" ->
            IF ~to_us(raw) THEN Ignored(raw, message)
            ELSE Effect(raw, message, NoEvent, NoShutter,
                        [kind |-> "Pong", body |-> message.a], FALSE)
      [] OTHER -> Ignored(raw, message)

\* task_read_interconnect: one iteration of the loop on a received frame
read_interconnect(raw) == handle(raw, from_raw(raw))

----------------------------------------------------------------------------
(* Inputs of the bus specification *)

\* Destination addresses on the wire: this node, broadcast, another node
Addresses == {LOCAL_ADDRESS, BROADCAST_ADDRESS, 2}

Data(a, b, c, d) == <<a, b, c, d, 0, 0, 0, 0>>

\* type, length and payload of the frames received
Payloads ==
    { <<SET_OUTPUT, l, Data(out, st, 0, 0)>> : l \in {1, 2}, out \in {5, 6}, st \in 0..3 }
    \cup { <<TRIGGER_INPUT, 2, Data(1, t, 0, 0)>> : t \in {0, 3, 6} }
    \cup { <<CALL_PROC, 1, Data(1, 0, 0, 0)>> }
    \cup { <<CALL_SHUTTER, l, Data(sh, code, 20, 30)>> :
              l \in {4, 7}, sh \in {0, 1}, code \in {1, 2, 3, 5, 8, 9, 16} }
    \cup { <<REQUEST_STATUS, 0, Data(0, 0, 0, 0)>> }
    \cup { <<t, 2, Data(lo, hi, 0, 0)>> : t \in {PING, PONG}, lo \in {0, 7}, hi \in {0, 1} }
    \cup { <<t, 2, Data(5, 1, 0, 0)>> : t \in {OUTPUT_CHANGED, INPUT_TRIGGERED} }
    \cup { <<t, 6, Data(10, 0, 0, 0)>> : t \in {INFO, ERROR, STATUS} }
    \cup { <<TIME_ANNOUNCEMENT, 8, <<234, 7, 11, 3, 12, 0, 0, dow>> >> : dow \in {0, 7} }

Frames == { MessageRaw(addr, p[1], p[2], p[3]) : addr \in Addresses, p \in Payloads }

\* board.interconnect.receive() returned a frame
BusReceive ==
    /\ \E raw \in Frames : bus' = read_interconnect(raw)
    /\ UNCHANGED <<shutters, io, wait, mgr, delivered, faults, vm, pressed, drv, codec, can, exp, buttons, status,
                   cpu, lock, sys>>

\* board.interconnect.receive() returned an error: the frame is counted and dropped
BusFrameError ==
    /\ bus' = Ignored(MessageRaw(0, 0, 0, Data(0, 0, 0, 0)), [kind |-> "FrameError"])
    /\ UNCHANGED <<shutters, io, wait, mgr, delivered, faults, vm, pressed, drv, codec, can, exp, buttons, status,
                   cpu, lock, sys>>

BusInit == bus = Ignored(MessageRaw(0, 0, 0, Data(0, 0, 0, 0)), NoMessage)

BusNext == BusReceive \/ BusFrameError

----------------------------------------------------------------------------
(* The bus reader with the tasks it sends to *)

\* The frames received: SetIO and Open for the shutters 0 and 8, and a
\* request to toggle an output that is not declared
RemoteFrames ==
    { MessageRaw(LOCAL_ADDRESS, CALL_SHUTTER, 7, Data(sh, c[1], c[2], c[3])) :
        sh \in {0, MAX_SHUTTERS}, c \in {<<16, 13, 14>>, <<2, 0, 0>>} }
    \cup { MessageRaw(LOCAL_ADDRESS, SET_OUTPUT, 2, Data(200, 2, 0, 0)) }

\* what the reader sent for the last frame has been taken by its receiver
Taken ==
    /\ bus.shutter.sent => delivered = [idx |-> bus.shutter.idx, cmd |-> bus.shutter.cmd]
    /\ bus.event.kind # "None" => vm.event = Ev(bus.event.kind, bus.event.arg, "None")

\* board.interconnect.receive() returned a frame
RemoteReceive ==
    /\ Taken
    /\ \E raw \in RemoteFrames : bus' = read_interconnect(raw)
    /\ UNCHANGED <<shutters, io, wait, mgr, delivered, faults, vm, pressed, drv, codec, can,
                   exp, buttons, status, cpu, lock, sys>>

\* Manager::on_mount, Either::First: the command the reader sent arrives
RemoteShutter ==
    /\ mgr = "run" /\ bus.shutter.sent
    /\ ManagerStep(on_command(bus.shutter.idx, bus.shutter.cmd, 0, {}),
                   [idx |-> bus.shutter.idx, cmd |-> bus.shutter.cmd])

\* Executor::listen_events: the event the reader sent arrives
RemoteOutput ==
    /\ vm.status = "run" /\ bus.event.kind # "None"
    /\ VmStep(on_remote(Ev(bus.event.kind, bus.event.arg, "None"), "ignore", {}))
    /\ UNCHANGED pressed

RemoteNext ==
    InterlockLoad \/ RemoteReceive \/ RemoteShutter \/ RemoteOutput \/ TravelTimeout

----------------------------------------------------------------------------
(* The output driver called directly: Board::set_output / toggle_output *)

\* Output indices used in the calls: two expander bits, a native pin and an
\* index that is not declared
DriverOutputs == {1, 16, 51, 99}

\* the driver after a call that returned r
DriverStep(r, op, io_idx, arg, value) ==
    /\ \A n \in r.io.failing : n <= r.io.calls
    /\ io' = IoEnd(r.io)
    /\ faults' = faults + Cardinality(r.io.failing)
    /\ drv' = [ op |-> op, idx |-> io_idx, arg |-> arg, ok |-> r.ok, value |-> value,
                before |-> OutGet(io, io_idx), failed |-> r.io.failing # {} ]
    /\ UNCHANGED <<shutters, wait, mgr, delivered, vm, pressed, bus, codec, can, exp, buttons, status,
                   cpu, lock, sys>>

\* Board::set_output(idx, state)
DriverSet ==
    \E io_idx \in DriverOutputs, high \in BOOLEAN :
       \E F \in FailSets(OutSet(IoBegin(io, {}), io_idx, high).io.calls) :
          DriverStep(OutSet(IoBegin(io, F), io_idx, high), "set", io_idx, high, high)

\* Board::toggle_output(idx)
DriverToggle ==
    \E io_idx \in DriverOutputs :
       \E F \in FailSets(toggle(IoBegin(io, {}), io_idx).io.calls) :
          DriverStep(toggle(IoBegin(io, F), io_idx), "toggle", io_idx, FALSE,
                     toggle(IoBegin(io, F), io_idx).value)

DriverInit ==
    drv = [ op |-> "none", idx |-> 0, arg |-> FALSE, ok |-> FALSE, value |-> FALSE,
            before |-> "None", failed |-> FALSE ]

DriverNext == DriverSet \/ DriverToggle

----------------------------------------------------------------------------
(* Codec: Message::to_raw, MessageRaw and Cmd::to_raw *)

\* u16 / u32 ::to_le_bytes
to_le_bytes2(n) == <<n % 256, (n \div 256) % 256>>
to_le_bytes4(n) ==
    <<n % 256, (n \div 256) % 256, (n \div 65536) % 256, (n \div 16777216) % 256>>

\* the eight data bytes of a MessageRaw, zero after the bytes written
padded(bytes) == bytes \o [k \in 1..(8 - Len(bytes)) |-> 0]

\* args::OutputState::to_bytes
OutputState_to_bytes(state) ==
    CASE state = "Off" -> 0 [] state = "On" -> 1 [] state = "Toggle" -> 2

\* Cmd::to_raw: the five bytes written
Cmd_to_raw(cmd) ==
    CASE cmd.c = "Go"          -> <<1, cmd.a, cmd.b, 0, 0>>
      [] cmd.c = "Open"        -> <<2, 0, 0, 0, 0>>
      [] cmd.c = "Close"       -> <<3, 0, 0, 0, 0>>
      [] cmd.c = "Tilt"        -> <<4, cmd.a, 0, 0, 0>>
      [] cmd.c = "TiltClose"   -> <<5, 0, 0, 0, 0>>
      [] cmd.c = "TiltOpen"    -> <<6, 0, 0, 0, 0>>
      [] cmd.c = "TiltHalf"    -> <<7, 0, 0, 0, 0>>
      [] cmd.c = "TiltReverse" -> <<8, 0, 0, 0, 0>>
      [] cmd.c = "SetIO"       -> <<16, cmd.a, cmd.b, 0, 0>>

\* the result of Message::to_raw: a MessageRaw, or a panic
Encoded(addr, msg_type, length, bytes) ==
    [raw |-> MessageRaw(addr, msg_type, length, padded(bytes)), panic |-> FALSE]
NotImplemented(addr) ==
    [raw |-> MessageRaw(addr, 0, 0, padded(<<>>)), panic |-> TRUE]

\* Message::to_raw.  Info is Message("Info", code, arg), Status is
\* Message("Status", uptime, [inputs, outputs]).
to_raw(message, addr) ==
    CASE message.kind = "Error" -> Encoded(addr, ERROR, 4, to_le_bytes4(message.a))
      [] message.kind = "Info" ->
            Encoded(addr, INFO, 6, to_le_bytes2(message.a) \o to_le_bytes4(message.b))
      [] message.kind = "SetOutput" ->
            Encoded(addr, SET_OUTPUT, 2, <<message.a, OutputState_to_bytes(message.b)>>)
      [] message.kind = "OutputChanged" ->
            Encoded(addr, OUTPUT_CHANGED, 2, <<message.a, OutputState_to_bytes(message.b)>>)
      [] message.kind = "InputTriggered" -> Encoded(addr, INPUT_TRIGGERED, 1, <<message.a>>)
      [] message.kind = "CallProcedure" -> Encoded(addr, CALL_PROC, 1, <<message.a>>)
      [] message.kind = "ShutterCmd" ->
            Encoded(addr, CALL_SHUTTER, 7, <<message.a>> \o Cmd_to_raw(message.cmd))
      [] message.kind = "Status" ->
            Encoded(addr, STATUS, 8,
                    to_le_bytes4(message.a) \o to_le_bytes2(message.b.inputs)
                        \o to_le_bytes2(message.b.outputs))
      [] message.kind = "Ping" -> Encoded(addr, PING, 2, to_le_bytes2(message.a))
      [] message.kind = "Pong" -> Encoded(addr, PONG, 2, to_le_bytes2(message.a))
      [] message.kind \in {"TriggerInput", "RequestStatus", "TimeAnnouncement"} ->
            NotImplemented(addr)

\* MessageRaw::to_can_addr
to_can_addr(raw) == (raw.msg_type % 32) * 64 + (raw.addr % 64)

\* MessageRaw::split_can_addr: (msg_type, device_addr)
split_can_addr(can_addr) == <<(can_addr \div 64) % 32, can_addr % 64>>

\* MessageRaw::from_can on the identifier and the data of a received frame
from_can(can_addr, length, data) ==
    MessageRaw(split_can_addr(can_addr)[2], split_can_addr(can_addr)[1], length, data)

\* the frame of raw as received by another node
received(raw) == from_can(to_can_addr(raw), raw.length, raw.data)

----------------------------------------------------------------------------
(* Inputs of the codec specification *)

NoCmd == Cmd("None", 0, 0)

\* Shutter commands encoded
WireCmds ==
    { Cmd("Go", 40, 60), Cmd("Open", 0, 0), Cmd("Close", 0, 0), Cmd("Tilt", 30, 0),
      Cmd("TiltClose", 0, 0), Cmd("TiltOpen", 0, 0), Cmd("TiltHalf", 0, 0),
      Cmd("TiltReverse", 0, 0), Cmd("SetIO", 13, 14) }

\* Messages encoded: those with numbers only, those with an output state or
\* a trigger, and Status
WireMessages ==
    { Message("Error", 70000, 0, NoCmd), Message("Info", 10, 70000, NoCmd),
      Message("InputTriggered", 3, 0, NoCmd), Message("CallProcedure", 1, 0, NoCmd),
      Message("RequestStatus", 0, 0, NoCmd), Message("TimeAnnouncement", 2026, 0, NoCmd) }
    \cup { Message(k, body, 0, NoCmd) : k \in {"Ping", "Pong"}, body \in {0, 513, 65535} }
    \cup { Message("ShutterCmd", 1, 0, c) : c \in WireCmds }
WireStateMessages ==
    { Message(k, 5, st, NoCmd) :
         k \in {"SetOutput", "OutputChanged"}, st \in {"Off", "On", "Toggle"} }
    \cup { Message("TriggerInput", 3, "ShortClick", NoCmd) }
WireStatusMessages == { Message("Status", 70000, [inputs |-> 513, outputs |-> 3], NoCmd) }

\* Node addresses (6 bits): the lowest, the configured ones, the middle of
\* the range, the highest and broadcast
NodeAddresses == {0, 1, 2, 10, 11, 31, 32, 62, BROADCAST_ADDRESS}

\* Command codes decoded
CmdCodes == 0..20

\* what one use of the codec did
Coded(op, message, addr, sent, decoded, bytes) ==
    [ op |-> op, message |-> message, addr |-> addr, raw |-> sent.raw, panic |-> sent.panic,
      decoded |-> decoded, bytes |-> bytes ]
Unsent == Encoded(0, 0, 0, <<>>)

\* message.to_raw(addr), the frame on the wire, MessageRaw::from_can and
\* Message::from_raw at the receiver
transmitted(message, addr, sent) ==
    Coded("message", message, addr, [raw |-> received(sent.raw), panic |-> sent.panic],
          IF sent.panic THEN NoMessage ELSE from_raw(received(sent.raw)),
          <<0, 0, 0, 0, 0>>)

CodecMessage ==
    /\ \E addr \in NodeAddresses :
          \/ \E message \in WireMessages :
                codec' = transmitted(message, addr, to_raw(message, addr))
          \/ \E message \in WireStateMessages :
                codec' = transmitted(message, addr, to_raw(message, addr))
          \/ \E message \in WireStatusMessages :
                codec' = transmitted(message, addr, to_raw(message, addr))
    /\ UNCHANGED <<shutters, io, wait, mgr, delivered, faults, vm, pressed, bus, drv, can, exp, buttons, status,
                   cpu, lock, sys>>

\* cmd.to_raw(bytes) followed by Cmd::from_raw(bytes)
CodecCmd ==
    /\ \E cmd \in WireCmds :
          codec' = Coded("cmd", Message("Cmd", 0, 0, cmd), 0, Unsent,
                         Message("Cmd", 0, 0,
                                 Cmd_from_raw(Cmd_to_raw(cmd)[1], Cmd_to_raw(cmd)[2],
                                              Cmd_to_raw(cmd)[3])),
                         Cmd_to_raw(cmd))
    /\ UNCHANGED <<shutters, io, wait, mgr, delivered, faults, vm, pressed, bus, drv, can, exp, buttons, status,
                   cpu, lock, sys>>

\* Cmd::from_raw on bytes that start with any code
CodecCode ==
    /\ \E code \in CmdCodes :
          codec' = Coded("code", NoMessage, 0, Unsent,
                         Message("Cmd", 0, 0, Cmd_from_raw(code, 1, 2)),
                         <<code, 1, 2, 0, 0>>)
    /\ UNCHANGED <<shutters, io, wait, mgr, delivered, faults, vm, pressed, bus, drv, can, exp, buttons, status,
                   cpu, lock, sys>>

CodecInit == codec = Coded("none", NoMessage, 0, Unsent, NoMessage, <<0, 0, 0, 0, 0>>)

CodecNext == CodecMessage \/ CodecCmd \/ CodecCode

----------------------------------------------------------------------------
(* Interconnect::transmit_standard: interconnect.rs *)

\* can::TxBuf<4>
TX_BUF == 4
\* for _ in 0..8
RETRIES == 8

\* Interconnect after construction; the fields after queue describe the
\* running (or last) transmit_standard: pc is "idle", "sleep" (in the Wait
\* loop, Timer::after pending) or "block" (in tx.write); tries counts the
\* try_write calls, won is the number of the one that succeeded (0: none),
\* added the frames put in the buffer, delays the Timer::after durations in
\* microseconds, drop and full the increments of can_drop and can_queue_full.
CanNew ==
    [ queue |-> 0, pc |-> "idle", policy |-> "None", round |-> 0, wait_time |-> 0,
      tries |-> 0, won |-> 0, added |-> 0, delays |-> <<>>, ret |-> "none",
      drop |-> 0, full |-> 0 ]

\* tx.try_write(frame): the frame is stored when the buffer has room
try_write(c) ==
    IF c.queue < TX_BUF
    THEN [c EXCEPT !.queue = @ + 1, !.tries = @ + 1, !.won = c.tries + 1, !.added = @ + 1]
    ELSE [c EXCEPT !.tries = @ + 1]

\* return true / return false
returned(c, value) == [c EXCEPT !.ret = value, !.pc = "idle"]

\* status::COUNTERS.can_drop.inc(); false
dropped(c) == returned([c EXCEPT !.drop = @ + 1], "false")

\* transmit_standard, ret.is_err(): match when_full
when_full(c) ==
    CASE c.policy = "Drop"  -> dropped([c EXCEPT !.full = @ + 1])
      [] c.policy = "Block" -> [c EXCEPT !.full = @ + 1, !.pc = "block"]
      [] c.policy = "Wait"  -> [c EXCEPT !.full = @ + 1, !.pc = "sleep", !.wait_time = 1,
                                          !.round = 0]

\* transmit_standard up to its first await after the happy path
transmit_tried(c, t) == IF t.won # 0 THEN returned(t, "true") ELSE when_full(t)
transmit_standard(c, policy) ==
    transmit_tried(c, try_write([c EXCEPT !.policy = policy, !.round = 0, !.wait_time = 0,
                                          !.tries = 0, !.won = 0, !.added = 0,
                                          !.delays = <<>>, !.ret = "none",
                                          !.drop = 0, !.full = 0]))

\* Wait loop that never gives up (faulty variant)
wait_retried_forever(c, t) ==
    IF t.won # 0 THEN returned(t, "true")
    ELSE [t EXCEPT !.wait_time = @ + 1, !.round = @ + 1]

\* WhenFull::Wait, one iteration after its try_write: return true, go round
\* again, or leave the loop after the last round and drop the frame
wait_retried(c, t) ==
    IF t.won # 0 THEN returned(t, "true")
    ELSE IF c.round + 1 = RETRIES
         THEN dropped([t EXCEPT !.wait_time = @ + 1, !.round = @ + 1])
         ELSE [t EXCEPT !.wait_time = @ + 1, !.round = @ + 1]

\* WhenFull::Wait, one iteration: the timer of 600 + wait_time * 500 us has
\* fired and the write is tried again
wait_retry(c) ==
    wait_retried(c, try_write([c EXCEPT !.delays = Append(@, 600 + c.wait_time * 500)]))

\* WhenFull::Block: tx.write(frame).await completes once the buffer has room
block_write(c) == returned([c EXCEPT !.queue = @ + 1, !.added = @ + 1], "true")

----------------------------------------------------------------------------
(* Inputs of the transmit specification *)

WhenFull == {"Drop", "Block", "Wait"}

CanStep(c) ==
    /\ can' = c
    /\ UNCHANGED <<shutters, io, wait, mgr, delivered, faults, vm, pressed, bus, drv, codec,
                   exp, buttons, status,
                   cpu, lock, sys>>

\* a task calls transmit_standard
CanTransmit == can.pc = "idle" /\ \E policy \in WhenFull : CanStep(transmit_standard(can, policy))

\* the timer of the Wait loop fires
CanTimer == can.pc = "sleep" /\ CanStep(wait_retry(can))

\* the blocked write completes
CanUnblock == can.pc = "block" /\ can.queue < TX_BUF /\ CanStep(block_write(can))

\* the controller has sent the oldest frame of the buffer
CanSent == can.queue > 0 /\ CanStep([can EXCEPT !.queue = @ - 1])

\* another task has put a frame in the buffer while this one awaits
CanOther ==
    can.pc # "idle" /\ can.queue < TX_BUF /\ CanStep([can EXCEPT !.queue = @ + 1])

CanInit == can = CanNew

CanNext == CanTransmit \/ CanTimer \/ CanUnblock \/ CanSent \/ CanOther

----------------------------------------------------------------------------
(* Interconnect::transmit_standard called by several tasks: the can_tx       *)
(* mutex.  The tasks run on one cooperative executor: what a task does       *)
(* between two awaits is one step, and can_tx.lock() on a free mutex does    *)
(* not yield.                                                                 *)

\* The tasks that transmit
Transmitters == {"executor", "reader", "app"}
\* no task holds the mutex
Nobody == "nobody"

\* a task outside transmit_standard
Returned(ret) == [when_full |-> "Drop", at |-> "returned", tries |-> 0, ret |-> ret]

\* Interconnect::new and the tasks before their first transmission
LockNew ==
    [ frames |-> 0, holder |-> Nobody, task |-> [t \in Transmitters |-> Returned(TRUE)] ]

\* tx.try_write(frame) / tx.write(frame) with room in the TX buffer
queued(l, t) ==
    [l EXCEPT !.frames = @ + 1, !.holder = Nobody, !.task[t] = Returned(TRUE)]

\* transmit_standard, the happy path failed: what the policy does next.
\* Block takes the mutex again and awaits tx.write() with the guard alive.
full_first(l, t) ==
    CASE l.task[t].when_full = "Drop" -> [l EXCEPT !.task[t] = Returned(FALSE)]
      [] l.task[t].when_full = "Block" -> [l EXCEPT !.holder = t, !.task[t].at = "write"]
      [] l.task[t].when_full = "Wait" -> [l EXCEPT !.task[t].at = "timer"]

\* transmit_standard, the happy path, entered with the mutex free: lock,
\* try_write, guard dropped
locked_first(l, t) == IF l.frames < TX_BUF THEN queued(l, t) ELSE full_first(l, t)

\* transmit_standard, WhenFull::Wait: lock and try_write after the timer
locked_retry(l, t) ==
    IF l.frames < TX_BUF THEN queued(l, t)
    ELSE IF l.task[t].tries + 1 = RETRIES THEN [l EXCEPT !.task[t] = Returned(FALSE)]
    ELSE [l EXCEPT !.task[t].tries = @ + 1, !.task[t].at = "timer"]

LockStep(l) ==
    /\ lock' = l
    /\ UNCHANGED <<shutters, io, wait, mgr, delivered, faults, vm, pressed, bus, drv, codec,
                   can, exp, buttons, status, cpu, sys>>

\* a task calls transmit_standard(raw, when_full) and awaits can_tx.lock()
LockTransmit ==
    \E t \in Transmitters, policy \in WhenFull :
        /\ lock.task[t].at = "returned"
        /\ LockStep([lock EXCEPT !.task[t] =
                        [when_full |-> policy, at |-> "lock", tries |-> 0, ret |-> FALSE]])

\* the task gets the mutex for the happy path
LockFirst ==
    \E t \in Transmitters :
        /\ lock.task[t].at = "lock" /\ lock.holder = Nobody
        /\ LockStep(locked_first(lock, t))

\* WhenFull::Block: tx.write(frame).await completes when the buffer has room
LockWritten ==
    \E t \in Transmitters :
        /\ lock.task[t].at = "write" /\ lock.frames < TX_BUF
        /\ LockStep(queued(lock, t))

\* WhenFull::Wait: the timer fires and the task awaits can_tx.lock()
LockTimer ==
    \E t \in Transmitters :
        /\ lock.task[t].at = "timer"
        /\ LockStep([lock EXCEPT !.task[t].at = "relock"])

\* WhenFull::Wait: the task gets the mutex for a retry
LockRetry ==
    \E t \in Transmitters :
        /\ lock.task[t].at = "relock" /\ lock.holder = Nobody
        /\ LockStep(locked_retry(lock, t))

\* the controller has sent a frame of the TX buffer
LockSent == lock.frames > 0 /\ LockStep([lock EXCEPT !.frames = @ - 1])

LockInit == lock = LockNew

LockNext == LockTransmit \/ LockFirst \/ LockWritten \/ LockTimer \/ LockRetry \/ LockSent

----------------------------------------------------------------------------
(* ExpanderInputs: expander_inputs.rs *)

LOOP_WAIT_MS == 30
MIN_TIME == 2
\* u16::MAX: the range of state[pos] and of errors
U16_MAX == 65535
\* ACTIVE_LEVEL: a line is active when its bit reads 0
ACTIVE_LEVEL == FALSE

SwitchEvent(switch_id, state, ms) == [switch_id |-> switch_id, state |-> state, ms |-> ms]

\* ExpanderInputs::new and the locals of run() before its loop.  before,
\* read, sent and prev describe the last loop iteration: the counters before
\* it, what expander.read() returned ("none": not called, "err" or "ok"),
\* the events transmitted, and per line the last event transmitted before it;
\* streak counts the I2C transfers that have failed since the last one that
\* succeeded (counted up to 61).
ExpanderNew(io_indices, required) ==
    [ io_indices |-> io_indices, required |-> required,
      errors |-> 0, expander_online |-> FALSE, last_input |-> 0,
      initialized |-> FALSE, state |-> [pos \in 0..15 |-> 0],
      panicked |-> FALSE, streak |-> 0,
      before |-> [pos \in 0..15 |-> 0], read |-> "none", sent |-> <<>>,
      prev |-> [pos \in 0..15 |-> "None"], last |-> [pos \in 0..15 |-> "None"] ]

\* the outcomes of expander.read()
Ok(bytes) == [ok |-> TRUE, bytes |-> bytes]
Err == [ok |-> FALSE, bytes |-> 0]

\* (bytes & (1 << pos)) != 0
bit(bytes, pos) == (bytes \div (2 ^ pos)) % 2 = 1

\* an addition that wraps at the end of the range (faulty variant)
wrapping_add(entry) == (entry + 1) % (U16_MAX + 1)

\* entry.saturating_add(1)
saturating_add(entry) == IF entry = U16_MAX THEN U16_MAX ELSE entry + 1

\* run, body of the for loop for one line: the new counter and the events
line_active(entry, switch_id) ==
    [ entry |-> entry,
      events |-> IF entry = MIN_TIME THEN <<SwitchEvent(switch_id, "Activated", 0)>>
                 ELSE IF entry > MIN_TIME
                      THEN <<SwitchEvent(switch_id, "Active", LOOP_WAIT_MS * entry)>>
                      ELSE <<>> ]
line(entry, value, switch_id) ==
    IF value = ACTIVE_LEVEL
    THEN line_active(saturating_add(entry), switch_id)
    ELSE [ entry |-> 0,
           events |-> IF entry >= MIN_TIME
                      THEN <<SwitchEvent(switch_id, "Deactivated", LOOP_WAIT_MS * entry)>>
                      ELSE <<>> ]

\* run, the for loop over state from pos on
RECURSIVE scan_lines(_, _, _)
scanned(s, r, pos) ==
    [s EXCEPT !.state[pos] = r.entry, !.sent = @ \o r.events,
              !.last[pos] = IF r.events = <<>> THEN @ ELSE r.events[1].state]
scan_lines(s, bytes, pos) ==
    IF pos > 15 THEN s
    ELSE scan_lines(scanned(s, line(s.state[pos], bit(bytes, pos), s.io_indices[pos + 1]), pos),
                    bytes, pos + 1)

\* defmt::panic!
expander_dead(s) == [s EXCEPT !.panicked = TRUE]

\* run, expander.write(0xffff) failed; errs is what fetch_add returned
init_failed(s) ==
    IF s.required
    THEN IF s.errors > 60
         THEN expander_dead([s EXCEPT !.errors = (@ + 1) % (U16_MAX + 1)])
         ELSE [s EXCEPT !.errors = (@ + 1) % (U16_MAX + 1), !.expander_online = FALSE]
    ELSE [s EXCEPT !.expander_online = FALSE]

\* run, expander.read() returned Ok(bytes)
read_ok(s, bytes) ==
    scan_lines([s EXCEPT !.errors = IF @ > 0 THEN @ - 1 ELSE @,
                         !.last_input = bytes, !.expander_online = TRUE],
               bytes, 0)

\* run, expander.read() failed, after errs is stored
read_failed_counted(s, errs) ==
    IF s.required /\ errs > 60
    THEN expander_dead([s EXCEPT !.errors = errs, !.last_input = 0,
                                 !.expander_online = FALSE])
    ELSE [s EXCEPT !.errors = errs, !.last_input = 0, !.expander_online = FALSE]

\* run, expander.read() failed; errors.load() + 1 overflows a u16 at 65535:
\* the addition panics in a build with overflow checks and wraps without
read_failed(s, overflow) ==
    IF s.errors = U16_MAX
    THEN IF overflow = "panic" THEN expander_dead(s) ELSE read_failed_counted(s, 0)
    ELSE read_failed_counted(s, s.errors + 1)

\* run, one iteration of the loop: write_ok is the outcome of the init write
\* (when one is made), read the outcome of expander.read()
iteration_read(s, read, overflow) ==
    IF read.ok THEN read_ok([s EXCEPT !.read = "ok"], read.bytes)
    ELSE read_failed([s EXCEPT !.read = "err"], overflow)
iteration(s, write_ok, read, overflow) ==
    IF s.panicked THEN s
    ELSE IF ~s.initialized /\ ~write_ok
         THEN init_failed([s EXCEPT !.before = s.state, !.prev = s.last, !.sent = <<>>,
                                    !.read = "none",
                                    !.streak = IF @ > 60 THEN @ ELSE @ + 1])
         ELSE iteration_read([s EXCEPT !.initialized = TRUE, !.before = s.state,
                                       !.prev = s.last, !.sent = <<>>,
                                       !.streak = IF read.ok \/ ~s.initialized THEN 0
                                                  ELSE IF @ > 60 THEN @ ELSE @ + 1],
                             read, overflow)

\* ExpanderInputs::get_inputs: None, or (index, bit) per position
NoInputs == <<>>
get_inputs(s) ==
    IF ~s.expander_online THEN NoInputs
    ELSE [p \in 1..16 |-> <<s.io_indices[p], bit(s.last_input, p - 1)>>]

\* n iterations of the loop with the same outcome of the I2C transfers; the
\* loop ends when the task panics
RECURSIVE iterations(_, _, _, _)
iterations(s, read, overflow, n) ==
    IF n = 0 THEN s
    ELSE IF n = 1 THEN iteration(s, TRUE, read, overflow)
    ELSE LET half == iterations(s, read, overflow, n \div 2)
         IN  IF half.panicked THEN half
             ELSE iterations(half, read, overflow, n - (n \div 2))

----------------------------------------------------------------------------
(* EventConverter: event_converter.rs *)

MAX_SHORT_MS == 300

\* EventConverter::run, the triggers sent for one SwitchEvent, in order
convert(input_event) ==
    CASE input_event.state = "Activated" -> <<"Activated">>
      [] input_event.state = "Active" ->
            IF input_event.ms >= MAX_SHORT_MS THEN <<"LongActivated">> ELSE <<>>
      [] input_event.state = "Deactivated" ->
            IF input_event.ms <= MAX_SHORT_MS
            THEN <<"ShortClick", "Deactivated">>
            ELSE <<"LongClick", "LongDeactivated", "Deactivated">>

----------------------------------------------------------------------------
(* Inputs of the scanner and converter specifications *)

\* polls a line is held for, one poll at a time
MaxHold == 14
\* errors counted one at a time
MaxErrors == 1
\* distance from the end of a counter's range within which it is followed
\* one step at a time
NearEnd == 6
\* capacity of the channel of SwitchEvents
INPUT_Q == 8

\* words read from the expander: line 0 active (0) or not
Words == {Ok(65535), Ok(65534)}

\* the switches wired to the lines that are driven
Wired == {1, 2, 21, 22}

\* EventConverter::run has sent trigger t for the switch
pressed_on(press, t) ==
    IF t = "Activated" THEN <<t>>
    ELSE IF t = "LongActivated" /\ press # <<>> /\ press[Len(press)] = t THEN press
    ELSE Append(press, t)

RECURSIVE delivered_all(_, _, _)
delivered_all(press, switch_id, triggers) ==
    IF triggers = <<>> THEN press
    ELSE delivered_all([press EXCEPT ![switch_id] = pressed_on(@, triggers[1])],
                       switch_id, Tail(triggers))

\* EventConverter::run, one iteration: the oldest SwitchEvent is received and
\* its triggers are sent
converted(b) ==
    [ input_q |-> Tail(b.input_q),
      press   |-> delivered_all(b.press, b.input_q[1].switch_id, convert(b.input_q[1])),
      event   |-> b.input_q[1],
      out     |-> convert(b.input_q[1]) ]

\* ExpanderInputs::transmit of the events of an iteration
Transmitted(e, r) ==
    /\ Len(buttons.input_q) + Len(r.sent) <= INPUT_Q
    /\ exp' = [exp EXCEPT ![e] = r]
    /\ buttons' = [buttons EXCEPT !.input_q = @ \o r.sent]
    /\ UNCHANGED <<shutters, io, wait, mgr, delivered, faults, vm, pressed, bus, drv, codec, can,
                   cpu, lock, sys>>

ScanStep(e, r) == Transmitted(e, r) /\ UNCHANGED status

\* the counters and the error counter stay within the bounds, or are within
\* reach of the end of their range
Capped(s, r) ==
    /\ \A pos \in 0..15 : r.state[pos] <= MaxHold \/ s.state[pos] >= U16_MAX - NearEnd
    /\ r.errors <= MaxErrors \/ r.errors >= U16_MAX - NearEnd

\* one iteration of the loop of an expander
Polled(e, r) == Capped(exp[e], r) /\ ScanStep(e, r)
Poll(e, reads) ==
    /\ ~exp[e].panicked
    /\ \E write_ok \in IF exp[e].initialized THEN {TRUE} ELSE BOOLEAN, read \in reads,
          overflow \in IF exp[e].errors = U16_MAX THEN {"panic", "wrap"} ELSE {"wrap"} :
          Polled(e, iteration(exp[e], write_ok, read, overflow))

\* one iteration of the converter
ConverterRun ==
    /\ buttons.input_q # <<>>
    /\ buttons' = converted(buttons)
    /\ UNCHANGED <<shutters, io, wait, mgr, delivered, faults, vm, pressed, bus, drv, codec, can,
                   exp, status,
                   cpu, lock, sys>>

\* line 0 of the switches stays active and every read succeeds until its
\* counter is one short of the end of its range; the converter has received
\* every Active event but the last
held(s) == iterations(s, Ok(65534), "wrap", U16_MAX - 1 - MaxHold)
SwitchesHeld ==
    /\ exp.switches.state[0] = MaxHold /\ exp.switches.state[1] = 0
    /\ exp.switches.errors = 0
    /\ buttons.input_q = <<>>
    /\ exp' = [exp EXCEPT !.switches = held(exp.switches)]
    /\ buttons' = [buttons EXCEPT
                      !.input_q = held(exp.switches).sent,
                      !.press[1] = pressed_on(@, "LongActivated")]
    /\ UNCHANGED <<shutters, io, wait, mgr, delivered, faults, vm, pressed, bus, drv, codec, can,
                   status,
                   cpu, lock, sys>>

SwitchesPoll == Poll("switches", Words \cup {Err})

ScanInit ==
    /\ exp = [ switches |-> ExpanderNew([p \in 1..16 |-> p], TRUE),
               sensors  |-> ExpanderNew([p \in 1..16 |-> 20 + p], FALSE) ]
    /\ buttons = [ input_q |-> <<>>, press |-> [k \in Wired |-> <<>>],
                   event |-> SwitchEvent(0, "None", 0), out |-> <<>> ]

InputsNext == SwitchesPoll \/ ConverterRun \/ SwitchesHeld

\* the switches expander with no line active: any pattern of failed and
\* successful transfers
SwitchesTransfer ==
    /\ ~exp.switches.panicked
    /\ \E write_ok \in IF exp.switches.initialized THEN {TRUE} ELSE BOOLEAN,
          read \in {Ok(65535), Err} :
          ScanStep("switches", iteration(exp.switches, write_ok, read, "wrap"))

SwitchErrorsNext == SwitchesTransfer

SensorsPoll == Poll("sensors", {Ok(65535), Err})

\* the sensors expander stops answering before any of its lines was active:
\* 65534 reads in a row fail
offline(s) == iterations(s, Err, "wrap", U16_MAX - 1)
SensorsOffline ==
    /\ exp.sensors.initialized /\ exp.sensors.errors = 0 /\ ~exp.sensors.panicked
    /\ exp.sensors.state[0] = 0 /\ buttons.event.state = "None"
    /\ ScanStep("sensors", offline(exp.sensors))

SensorErrorsNext == SensorsPoll \/ SensorsOffline

----------------------------------------------------------------------------
(* Executor::send_status: microvm.rs *)

\* Message::StatusIO { io: IOType::Output(idx) | IOType::Input(idx), state }
StatusIO(type, idx, state) == [type |-> type, idx |-> idx, state |-> state]

\* the steps of send_status: a transmit_response(message, WhenFull::Wait) or
\* a Timer::after(Duration::from_millis(ms))
Transmit(message) == [op |-> "transmit", message |-> message, ms |-> 0]
TimerAfter(ms) == [op |-> "timer", message |-> StatusIO("None", 0, "None"), ms |-> ms]

\* if state { IOState::On } else { IOState::Off }
IOState(state) == IF state THEN "On" ELSE "Off"

\* send_status, the loop over board.get_output_status() from position p on
RECURSIVE status_outputs(_, _)
status_outputs(all, p) ==
    IF p > Len(all) THEN <<>>
    ELSE <<Transmit(StatusIO("Output", all[p][1], IOState(all[p][2]))), TimerAfter(1)>>
         \o status_outputs(all, p + 1)

\* send_status, one expander whose get_inputs() is Some(inputs)
status_online(inputs) ==
    [p \in 1..Len(inputs) |-> Transmit(StatusIO("Input", inputs[p][1], IOState(inputs[p][2])))]

\* send_status, one expander whose inputs are all reported as read (faulty
\* variant: the offline case is not told apart)
status_inputs_as_read(e) ==
    [p \in 1..16 |-> Transmit(StatusIO("Input", e.io_indices[p], IOState(bit(e.last_input, p - 1))))]

\* send_status, one expander
status_inputs(e) ==
    IF get_inputs(e) # NoInputs THEN status_online(get_inputs(e))
    ELSE [p \in 1..16 |-> Transmit(StatusIO("Input", e.io_indices[p], "Error"))]

\* send_status
send_status(o, expander_sensors, expander_switches) ==
    status_outputs(get_all(o), 1) \o status_inputs(expander_sensors)
        \o status_inputs(expander_switches)

----------------------------------------------------------------------------
(* Inputs of the status specification *)

\* Event::RemoteStatusRequest and Opcode::SendStatus both call send_status
StatusSent ==
    /\ \E cause \in {"RemoteStatusRequest", "SendStatus"} :
          status' = [cause |-> cause, steps |-> send_status(io, exp.sensors, exp.switches)]
    /\ UNCHANGED <<shutters, io, wait, mgr, delivered, faults, vm, pressed, bus, drv, codec, can,
                   exp, buttons,
                   cpu, lock, sys>>

\* the last send_status is forgotten when an expander is polled or an
\* output is set
NoStatus == [cause |-> "None", steps |-> <<>>]

StatusPolled(e, r) == Capped(exp[e], r) /\ Transmitted(e, r) /\ status' = NoStatus
StatusPoll(e, reads) ==
    /\ ~exp[e].panicked
    /\ \E write_ok \in IF exp[e].initialized THEN {TRUE} ELSE BOOLEAN, read \in reads :
          StatusPolled(e, iteration(exp[e], write_ok, read, "wrap"))

StatusSensorsPoll == StatusPoll("sensors", Words \cup {Err})
StatusSwitchesPoll == StatusPoll("switches", {Ok(65535), Err})

\* Board::set_output on a declared output, the write succeeding
StatusOutputSet ==
    /\ \E io_idx \in {1, 51}, high \in BOOLEAN :
          io' = IoEnd(OutSet(IoBegin(io, {}), io_idx, high).io)
    /\ status' = NoStatus
    /\ UNCHANGED <<shutters, wait, mgr, delivered, faults, vm, pressed, bus, drv, codec, can,
                   exp, buttons,
                   cpu, lock, sys>>

StatusInit == status = NoStatus

StatusNext == StatusSent \/ StatusSensorsPoll \/ StatusSwitchesPoll \/ StatusOutputSet

----------------------------------------------------------------------------
(* The tasks of the node and what they wait for.  The thread-mode executor
   runs one task at a time up to its next .await, so each action is the
   code between two awaits.  sys holds each task's position, the fill of
   the channels and the owner of the output-driver mutex; what the
   handlers compute is modelled in the sections above. *)

\* EventChannel = Channel<ThreadModeRawMutex, Event, 5>
EVENT_CAP == 5
\* ector::actor!(spawner, shutters, Manager, ..): the inbox holds one message
INBOX_CAP == 1

\* the tasks
Tasks == {"scanners", "converter", "vm", "manager", "reader"}

\* shutter messages in flight: [idx, c]
ShutterMsg(idx, c) == [idx |-> idx, c |-> c]
NoMsg == ShutterMsg(0, "None")
\* what a program can send: BindShutter and a bound shutter command
VmMsgs == {ShutterMsg(0, "SetIO"), ShutterMsg(0, "Go")}
\* what a CALL_SHUTTER frame can carry
BusMsgs == {ShutterMsg(0, "SetIO"), ShutterMsg(0, "Go"), ShutterMsg(MAX_SHUTTERS, "Go")}

\* Executor::parse_event: the awaits of one event in order.
\*   lock, write : Board::set_output / toggle_output (the mutex is held
\*                 over the I2C write)
\*   read        : Board::get_output_status (the mutex is taken and released)
\*   notify      : self.shutters.send((idx, cmd)).await
\*   tx          : interconnect.transmit_response(msg, Drop or Wait), once
\*                 or several times in a row
EventAwaits ==
    { <<"lock", "write", "tx">>,   \* an output: bound button, RemoteToggle, ..
      <<"notify", "tx">>,          \* button bound to a shutter command
      <<"tx">>,                    \* button without a binding
      <<"read", "tx">> }           \* RemoteStatusRequest

\* the tasks after spawn_tasks
TasksNew ==
    [ input_q   |-> 0,          \* board.input_q: raw switch events queued
      converter |-> 0,          \* button events the converter has yet to send
      events    |-> 0,          \* EVENT_CHANNEL: events queued
      inbox     |-> <<>>,       \* the manager's inbox
      outputs   |-> Nobody,     \* owner of board.indexed_outputs
      vm        |-> <<>>,       \* awaits left in parse_event; <<>>: receive()
      vm_msg    |-> NoMsg,      \* the message of the pending notify
      manager   |-> "select",   \* "select" | "run" | "panic"
      sets      |-> 0,          \* set_output calls the manager has yet to make
      awake     |-> FALSE,      \* shutter 0 is not in Sleep
      reader    |-> "receive",  \* "receive" | "event" | "shutter" | "tx"
      reader_msg |-> NoMsg ]

\* panic_probe: a panic of any task stops the core
Halted(s) == s.manager = "panic"

SysStep(s) ==
    /\ ~Halted(sys)
    /\ sys' = s
    /\ UNCHANGED <<shutters, io, wait, mgr, delivered, faults, vm, pressed, bus, drv, codec,
                   can, exp, buttons, status, cpu, lock>>

\* ExpanderInputs::transmit: try_send, then send().await when the queue is full
ScannerSend ==
    sys.input_q < INPUT_Q /\ SysStep([sys EXCEPT !.input_q = @ + 1])

\* EventConverter::run: one raw event received; it becomes up to three
\* button events
ConverterTake ==
    /\ sys.converter = 0 /\ sys.input_q > 0
    /\ \E n \in 0..3 : SysStep([sys EXCEPT !.input_q = @ - 1, !.converter = n])

\* EventConverter::run: output.send(event).await
ConverterSend ==
    /\ sys.converter > 0 /\ sys.events < EVENT_CAP
    /\ SysStep([sys EXCEPT !.converter = @ - 1, !.events = @ + 1])

\* Executor::listen_events: event_channel.receive().await, parse_event begins
VmTake ==
    /\ sys.vm = <<>> /\ sys.events > 0
    /\ \E todo \in EventAwaits, msg \in VmMsgs :
          SysStep([sys EXCEPT !.events = @ - 1, !.vm = todo,
                              !.vm_msg = IF todo[1] = "notify" THEN msg ELSE NoMsg])

\* the task at the head of whose awaits is op
VmAt(op) == sys.vm # <<>> /\ sys.vm[1] = op

\* Board::set_output: indexed_outputs.lock().await
VmLock ==
    /\ VmAt("lock") /\ sys.outputs = Nobody
    /\ SysStep([sys EXCEPT !.vm = Tail(@), !.outputs = "vm"])

\* Board::set_output: set(idx, state).await returned, the guard is dropped
VmWrite ==
    /\ VmAt("write") /\ sys.outputs = "vm"
    /\ SysStep([sys EXCEPT !.vm = Tail(@), !.outputs = Nobody])

\* Board::get_output_status: lock().await.get_all()
VmRead ==
    /\ VmAt("read") /\ sys.outputs = Nobody
    /\ SysStep([sys EXCEPT !.vm = Tail(@)])

\* self.shutters.send((shutter_idx, cmd)).await
VmNotify ==
    /\ VmAt("notify") /\ Len(sys.inbox) < INBOX_CAP
    /\ SysStep([sys EXCEPT !.vm = Tail(@), !.vm_msg = NoMsg,
                           !.inbox = Append(@, sys.vm_msg)])

\* transmit_response(msg, Drop or Wait) returned: the frame was queued, or
\* dropped at once, or dropped after RETRIES timers
VmTx ==
    VmAt("tx") /\ SysStep([sys EXCEPT !.vm = Tail(@)])

\* Manager::on_mount, Either::First: self.shutters[shutter_idx as usize]
\* and Shutter::command; sets is the number of set_output calls of update,
\* finish and set_target
manager_command(s, msg) ==
    IF msg.idx >= MAX_SHUTTERS THEN {[s EXCEPT !.manager = "panic"]}
    ELSE IF msg.c = "SetIO"
    THEN IF s.awake THEN {[s EXCEPT !.manager = "panic"]} ELSE {s}
    ELSE { [s EXCEPT !.awake = TRUE, !.manager = IF n = 0 THEN "select" ELSE "run",
                     !.sets = n] : n \in {0, 2} }

ManagerTake ==
    /\ sys.manager = "select" /\ sys.inbox # <<>>
    /\ \E s \in manager_command([sys EXCEPT !.inbox = Tail(@)], sys.inbox[1]) : SysStep(s)

\* Manager::on_mount, Either::Second and the for loop: a shutter that is
\* not in Sleep is updated; it may switch its outputs and may go to Sleep.
\* select() polls the inbox first: the timer ends it when the inbox is empty.
ManagerTimer ==
    /\ sys.manager = "select" /\ sys.awake /\ sys.inbox = <<>>
    /\ \E n \in {0, 2}, a \in BOOLEAN :
          SysStep([sys EXCEPT !.awake = a, !.sets = n,
                              !.manager = IF n = 0 THEN "select" ELSE "run"])

\* Shutter::go_idle / go_up / go_down: board.set_output(..).await, the lock
ManagerLock ==
    /\ sys.manager = "run" /\ sys.outputs = Nobody
    /\ SysStep([sys EXCEPT !.outputs = "manager"])

\* the write returned; after the last one the manager is back at select()
ManagerWrite ==
    /\ sys.manager = "run" /\ sys.outputs = "manager"
    /\ SysStep([sys EXCEPT !.outputs = Nobody, !.sets = @ - 1,
                           !.manager = IF sys.sets = 1 THEN "select" ELSE "run"])

\* task_read_interconnect: a frame was received and decoded
ReaderReceive ==
    /\ sys.reader = "receive"
    /\ \/ SysStep([sys EXCEPT !.reader = "event"])      \* SetOutput, RequestStatus
       \/ SysStep([sys EXCEPT !.reader = "tx"])         \* Ping
       \/ \E msg \in BusMsgs :                          \* ShutterCmd
             SysStep([sys EXCEPT !.reader = "shutter", !.reader_msg = msg])

\* EVENT_CHANNEL.send(event).await
ReaderSendEvent ==
    /\ sys.reader = "event" /\ sys.events < EVENT_CAP
    /\ SysStep([sys EXCEPT !.reader = "receive", !.events = @ + 1])

\* shutters_channel.send((shutter_idx, cmd)).await
ReaderSendShutter ==
    /\ sys.reader = "shutter" /\ Len(sys.inbox) < INBOX_CAP
    /\ SysStep([sys EXCEPT !.reader = "receive", !.reader_msg = NoMsg,
                           !.inbox = Append(@, sys.reader_msg)])

\* transmit_response(Pong, Wait) returned
ReaderTx ==
    sys.reader = "tx" /\ SysStep([sys EXCEPT !.reader = "receive"])

SysInit == sys = TasksNew

\* what the environment does: switches move, frames arrive, time passes
SysInput == ScannerSend \/ ReaderReceive \/ ManagerTimer

VmTask == VmTake \/ VmLock \/ VmWrite \/ VmRead \/ VmNotify \/ VmTx
ManagerTask == ManagerTake \/ ManagerLock \/ ManagerWrite
ReaderTask == ReaderSendEvent \/ ReaderSendShutter \/ ReaderTx
ConverterTask == ConverterTake \/ ConverterSend

SysNext == SysInput \/ VmTask \/ ManagerTask \/ ReaderTask \/ ConverterTask

\* the task t waits for the task u to act
WaitsFor(t, u) ==
    CASE t = "scanners"  -> u = "converter" /\ sys.input_q = INPUT_Q
      [] t = "converter" -> u = "vm" /\ sys.converter > 0 /\ sys.events = EVENT_CAP
      [] t = "vm"        -> \/ u = "manager" /\ VmAt("notify") /\ Len(sys.inbox) = INBOX_CAP
                            \/ u = "manager" /\ sys.outputs = "manager"
                                 /\ (VmAt("lock") \/ VmAt("read"))
      [] t = "manager"   -> u = "vm" /\ sys.manager = "run" /\ sys.outputs = "vm"
      [] t = "reader"    -> \/ u = "vm" /\ sys.reader = "event" /\ sys.events = EVENT_CAP
                            \/ u = "manager" /\ sys.reader = "shutter"
                                 /\ Len(sys.inbox) = INBOX_CAP

----------------------------------------------------------------------------
(* Specifications *)

Init ==
    /\ ShutterInit /\ VmInit /\ BusInit /\ DriverInit /\ CodecInit /\ CanInit /\ ScanInit
    /\ StatusInit /\ CpuInit /\ LockInit /\ SysInit

SpecShutters == Init /\ [][ShutterNext]_vars

SpecTasks == Init /\ [][SysNext]_vars

\* The executor polls every task that was woken: a task that can go on
\* again and again does go on (the VM and the manager; nothing is assumed
\* of the other tasks or of the environment).
SpecTasksFair == SpecTasks /\ SF_vars(VmTask) /\ SF_vars(ManagerTask)

SpecTravel == Init /\ [][TravelNext]_vars

SpecVM == Init /\ [][VmNext]_vars

SpecOutputs == Init /\ [][OutputNext]_vars

SpecRegisters == Init /\ [][RegisterNext]_vars

SpecExecute == Init /\ [][CpuNext]_vars

SpecRemote == Init /\ [][RemoteNext]_vars

SpecInterlock == Init /\ [][InterlockNext]_vars

SpecLock == Init /\ [][LockNext]_vars

\* the executor task is scheduled while execute runs
SpecExecuteFair == SpecExecute /\ WF_vars(CpuTurn)


SpecDriver == Init /\ [][DriverNext]_vars

SpecCodec == Init /\ [][CodecNext]_vars

SpecCan == Init /\ [][CanNext]_vars

SpecInputs == Init /\ [][InputsNext]_vars

SpecStatus == Init /\ [][StatusNext]_vars

SpecSwitchErrors == Init /\ [][SwitchErrorsNext]_vars

SpecSensorErrors == Init /\ [][SensorErrorsNext]_vars

SpecBus == Init /\ [][BusNext]_vars

----------------------------------------------------------------------------
(* Properties of the shutter manager *)

\* commands that request a movement
MovementCmds == {"Go", "Open", "Close", "Tilt", "TiltClose", "TiltOpen", "TiltHalf", "TiltReverse"}

\* C1: a shutter that moves in the direction opposite to its previous
\* movement has spent at least COOLDOWN ms in Cooldown in between; it never
\* goes from Up to Down or from Down to Up directly.
CooldownBetweenDirections ==
    \A i \in DOMAIN shutters :
        LET sh == shutters[i] IN
        (sh.action \in {"Up", "Down"} /\ sh.h_prev \in {"Up", "Down"} /\ sh.h_prev # sh.action)
            => sh.h_gap >= COOLDOWN

\* C1: a configured shutter drives Down after having moved Up
DirectionReversed ==
    \E i \in DOMAIN shutters :
        /\ shutters[i].action = "Down" /\ shutters[i].h_prev = "Up"
        /\ Driven(io, shutters[i].down)

\* C2: while the action of a configured shutter is Up (Down), its up (down)
\* output is driven active and the other one inactive, also when a
\* set_output call made while starting the movement returned an error.
DriveMatchesAction ==
    \A i \in DOMAIN shutters :
        LET sh == shutters[i] IN
        Configured(sh) =>
            /\ sh.action = "Up" => Driven(io, sh.up) /\ ~Driven(io, sh.down)
            /\ sh.action = "Down" => Driven(io, sh.down) /\ ~Driven(io, sh.up)

\* C3: a SetIO delivered to a shutter that is not in Sleep changes neither
\* its outputs, action, position nor target, and the manager keeps running.
SetIORefusedOutsideSleep ==
    [][\A i \in DOMAIN shutters :
          (delivered'.cmd.c = "SetIO" /\ delivered'.idx = i /\ shutters[i].action # "Sleep")
          => /\ mgr' = "run"
             /\ shutters'[i].up = shutters[i].up
             /\ shutters'[i].down = shutters[i].down
             /\ shutters'[i].action = shutters[i].action
             /\ shutters'[i].height = shutters[i].height
             /\ shutters'[i].tilt = shutters[i].tilt
             /\ shutters'[i].target_height = shutters[i].target_height
             /\ shutters'[i].target_tilt = shutters[i].target_tilt]_vars

\* C7: the estimated position of every shutter stays within 0..100 percent
\* of height and of tilt.
PositionInRange ==
    \A i \in DOMAIN shutters :
        /\ 0 <= shutters[i].height /\ shutters[i].height <= 100 * HScale
        /\ 0 <= shutters[i].tilt /\ shutters[i].tilt <= 100 * TScale

\* C7: a shutter that a timer visit finds driving Down towards a target
\* beyond 100 percent, with its estimate held at 100 percent
HeldAtFullHeight ==
    \E i \in DOMAIN shutters :
        /\ delivered.cmd.c = "Timeout" /\ wait = UPDATE_PERIOD
        /\ shutters[i].action = "Down"
        /\ shutters[i].target_height > 100 * HScale
        /\ shutters[i].height = 100 * HScale

\* C8: a movement command delivered to a shutter that was never configured
\* leaves its action in Sleep and its position estimate unchanged, and no
\* output is driven.
UnconfiguredIgnoresMovement ==
    [][\A i \in DOMAIN shutters :
          (/\ delivered'.cmd.c \in MovementCmds /\ delivered'.idx = i
           /\ shutters[i].up = OUT_MAX /\ shutters[i].down = OUT_MAX)
          => /\ shutters'[i].action = "Sleep"
             /\ shutters'[i].height = shutters[i].height
             /\ shutters'[i].tilt = shutters[i].tilt
             /\ \A x \in 1..Len(indices) : ~Driven(io', indices[x])]_vars

\* C9: once an Open has run to completion the position is within the
\* hysteresis of (0, 0); once a Close has, within the hysteresis of (100, 100).
CompletedOpenClose ==
    \A i \in DOMAIN shutters :
        LET sh == shutters[i] IN
        sh.h_done =>
            /\ sh.h_cmd = "Open" =>
                  /\ sh.height <= HYSTERESIS * HScale
                  /\ sh.tilt <= HYSTERESIS_TILT * TScale
            /\ sh.h_cmd = "Close" =>
                  /\ sh.height >= (100 - HYSTERESIS) * HScale
                  /\ sh.tilt >= (100 - HYSTERESIS_TILT) * TScale

\* C9: a configured shutter in Cooldown after an Open that moved it Up to
\* the end
OpenCompleted ==
    \E i \in DOMAIN shutters :
        /\ Configured(shutters[i])
        /\ shutters[i].h_done /\ shutters[i].h_cmd = "Open"
        /\ shutters[i].action = "Cooldown" /\ shutters[i].h_last = "Up"

----------------------------------------------------------------------------
(* Properties of the binding engine *)

\* C5: a Deactivated event for the input that anchors the top of the layer
\* stack makes the stack one entry shorter and dispatches no action (no
\* output command, no shutter command, no transmission); for any other
\* Deactivated event the stack is unchanged and the action bound to
\* (input, current layer, Deactivated) is the one dispatched.
DeactivatedPopsAndSuppresses ==
    [][(vm'.event.kind = "ButtonEvent" /\ vm'.event.trigger = "Deactivated")
       => IF top_anchored(vm.layers, vm'.event.a)
          THEN /\ Len(vm'.layers) = Len(vm.layers) - 1
               /\ vm'.dispatched.kind = "None"
               /\ vm'.tx = <<>> /\ vm'.shut = <<>> /\ io' = io
          ELSE /\ vm'.layers = vm.layers
               /\ vm'.dispatched =
                     filter(vm.bindings, vm'.event.a, current(vm.layers), "Deactivated").action
      ]_vars

\* C5: a release has just popped the layer its input anchored, and nothing
\* was dispatched although the layer now current binds a procedure to the
\* Deactivated of that input
ReleaseSuppressed ==
    /\ vm.event.kind = "ButtonEvent" /\ vm.event.trigger = "Deactivated"
    /\ vm.tx = <<>> /\ vm.dispatched.kind = "None"
    /\ filter(vm.bindings, vm.event.a, current(vm.layers), "Deactivated").action.kind = "Proc"

\* C6: once every switch has been released, no layer anchored to a real
\* input (an anchor other than the virtual input 0) is left on the stack.
NoLayerHeldAfterRelease ==
    (\A i \in Switches : pressed[i] = "up")
        => \A k \in 1..Len(vm.layers) : vm.layers[k].anchor = 0

\* the trigger and the action a Bind* opcode is to install
BoundTrigger(op) ==
    CASE op.o = "BindShortToggle" -> "ShortClick"
      [] op.o = "BindLongToggle"  -> "LongClick"
      [] op.o = "BindLayerHold"   -> "Activated"
      [] OTHER                    -> call_trigger(op.o)
BoundAction(op) ==
    CASE op.o \in {"BindShortToggle", "BindLongToggle"} -> Act("ToggleOutput", op.b, 0)
      [] op.o = "BindLayerHold" -> Act("ActivateLayer", op.b, 0)
      [] OTHER -> Act("Proc", op.b, 0)

ExactBindings(bs, idx, layer, trigger) ==
    {k \in 1..Len(bs) : bs[k].idx = idx /\ bs[k].layer = layer /\ bs[k].trigger = trigger}

\* C11: a button event that is not the suppressed release dispatches the
\* action bound to exactly (input, layer current when it arrives, trigger);
\* when no such binding exists nothing is dispatched: no output is changed,
\* no shutter command is sent, and layers and bindings stay as they were,
\* whatever is bound to the same input and trigger on other layers.
ExactLayerLookup ==
    [][(vm'.event.kind = "ButtonEvent"
          /\ ~(vm'.event.trigger = "Deactivated" /\ top_anchored(vm.layers, vm'.event.a)))
       => IF ExactBindings(vm.bindings, vm'.event.a, current(vm.layers), vm'.event.trigger) = {}
          THEN /\ vm'.dispatched.kind = "None"
               /\ io' = io /\ vm'.shut = <<>>
               /\ vm'.layers = vm.layers /\ vm'.bindings = vm.bindings
          ELSE \E k \in ExactBindings(vm.bindings, vm'.event.a, current(vm.layers),
                                      vm'.event.trigger) :
                  vm'.dispatched = vm.bindings[k].action
      ]_vars

\* C11: a short click arrived on a layer other than the default one, where
\* it is not bound; it is bound on the default layer and nothing was
\* dispatched
NoFallbackToDefault ==
    /\ vm.event.kind = "ButtonEvent" /\ vm.event.trigger = "ShortClick"
    /\ current(vm.layers) # 0
    /\ ExactBindings(vm.bindings, vm.event.a, current(vm.layers), "ShortClick") = {}
    /\ ExactBindings(vm.bindings, vm.event.a, 0, "ShortClick") # {}
    /\ vm.dispatched.kind = "None"
    /\ vm.tx = <<Msg("InputChanged", vm.event.a, "ShortClick")>>

\* the InputChanged transmissions among tx
InputEchoes(tx) == {k \in 1..Len(tx) : tx[k].kind = "InputChanged"}

\* C12: every local button event the VM handles (without the task
\* panicking) ends with one InputChanged{input, trigger} transmission, made
\* after everything the bound action transmitted, and it is the only
\* InputChanged of that event; a remote event transmits no InputChanged.
EveryButtonEventEchoed ==
    [][(vm'.status = "run" /\ vm.status = "run")
       => IF vm'.event.kind = "ButtonEvent"
          THEN /\ InputEchoes(vm'.tx) = {Len(vm'.tx)}
               /\ vm'.tx # <<>>
               /\ vm'.tx[Len(vm'.tx)] =
                     Msg("InputChanged", vm'.event.a, vm'.event.trigger)
          ELSE InputEchoes(vm'.tx) = {}
      ]_vars

----------------------------------------------------------------------------
(* Properties of the binding engine driving outputs *)

\* the OutputChanged transmissions of the last handler, in order
Reported(tx) == SelectSeq(tx, LAMBDA x : x.kind = "OutputChanged")
\* the driver calls of the last handler that returned Ok / Err, in order
Succeeded(alters) == SelectSeq(alters, LAMBDA c : c.ok)
Failed(alters) == SelectSeq(alters, LAMBDA c : ~c.ok)

----------------------------------------------------------------------------
(* Properties of the output driver *)

\* C14: after set(idx, v) returned Ok, get(idx) = Some(v); after toggle(idx)
\* returned Ok(v'), get(idx) = Some(v') and v' negates the state cached
\* before the call; get_all() lists every declared index exactly once, with
\* its cached state; set and toggle on an undeclared index return Err and
\* get returns None.
DriverCacheAgrees ==
    /\ (drv.op = "set" /\ drv.ok) => OutGet(io, drv.idx) = drv.arg
    /\ (drv.op = "toggle" /\ drv.ok) =>
          /\ OutGet(io, drv.idx) = drv.value
          /\ drv.value = ~drv.before
    /\ Len(get_all(io)) = Len(indices)
    /\ \A p \in 1..Len(indices) :
          /\ Cardinality({q \in 1..Len(get_all(io)) : get_all(io)[q][1] = indices[p]}) = 1
          /\ \E q \in 1..Len(get_all(io)) :
                get_all(io)[q] = <<indices[p], OutGet(io, indices[p])>>
    /\ \A q \in 1..Len(get_all(io)) : find_id(get_all(io)[q][1]) # 0
    /\ (drv.op # "none" /\ find_id(drv.idx) = 0) =>
          ~drv.ok /\ OutGet(io, drv.idx) = "None"

\* C14: an expander output that was on has been toggled off successfully
ToggledOff ==
    /\ drv.op = "toggle" /\ drv.ok /\ drv.idx = 16
    /\ drv.before = TRUE /\ drv.value = FALSE
    /\ get_all(io)[16] = <<16, FALSE>>

\* C15: a call whose expander write failed returns Err and leaves the cached
\* state of every output as it was before the call.
FailedWriteKeepsCache ==
    [][drv'.failed => (~drv'.ok /\ io'.state = io.state /\ get_all(io') = get_all(io))]_vars

\* C15: the write of a toggle of an output that is on failed, another output
\* is on as well, and both are still cached as on
ToggleWriteFailed ==
    /\ drv.op = "toggle" /\ drv.failed /\ ~drv.ok
    /\ drv.idx = 1 /\ drv.before = TRUE
    /\ OutGet(io, 1) = TRUE /\ OutGet(io, 16) = TRUE

----------------------------------------------------------------------------
(* Properties of the codec *)

\* two decoded messages are the same variant with the same fields
SameMessage(x, y) == x.kind = y.kind /\ x.a = y.a /\ x.b = y.b /\ x.cmd = y.cmd

\* The variants of the wire table
WireTable ==
    { "Error", "OutputChanged", "InputChanged", "SetOutput", "TriggerInput", "CallProcedure",
      "ShutterCmd", "RequestStatus", "Status", "TimeAnnouncement", "Info", "Pong", "Ping" }

\* C16: for every message variant of the wire table and every 6-bit
\* address, the message is encoded (in at most 8 payload bytes), and the
\* frame decodes to the same message with the same address and type.
CodecRoundTrip ==
    (codec.op = "message" /\ codec.message.kind \in WireTable) =>
        /\ ~codec.panic
        /\ codec.raw.length <= 8
        /\ codec.raw.addr = codec.addr
        /\ codec.raw.msg_type = to_raw(codec.message, codec.addr).raw.msg_type
        /\ SameMessage(codec.decoded, codec.message)

\* C17: Cmd::from_raw of the bytes written by c.to_raw is c, the first byte
\* is the code of the wire table, and bytes starting with any other code
\* decode to None.
WireCodes ==
    [ Go |-> 1, Open |-> 2, Close |-> 3, Tilt |-> 4, TiltClose |-> 5, TiltOpen |-> 6,
      TiltHalf |-> 7, TiltReverse |-> 8, SetIO |-> 16 ]
CmdRoundTrip ==
    /\ codec.op = "cmd" =>
          /\ codec.decoded.cmd = codec.message.cmd
          /\ codec.bytes[1] = WireCodes[codec.message.cmd.c]
    /\ (codec.op = "code" /\ codec.bytes[1] \notin {1, 2, 3, 4, 5, 6, 7, 8, 16}) =>
          codec.decoded.cmd.c = "None"

----------------------------------------------------------------------------
(* Properties of the bus reader *)

\* Request-class message types
RequestTypes == {SET_OUTPUT, TRIGGER_INPUT, CALL_PROC, CALL_SHUTTER, REQUEST_STATUS, PING}

BroadcastTimeSetsClock ==
    (bus.raw.msg_type = TIME_ANNOUNCEMENT /\ bus.raw.addr = BROADCAST_ADDRESS
        /\ bus.raw.length = 8 /\ byte(bus.raw, 7) <= 6)
    => bus.clock

----------------------------------------------------------------------------
(* Properties of the transmitter *)

RECURSIVE Sum(_)
Sum(seq) == IF seq = <<>> THEN 0 ELSE seq[1] + Sum(Tail(seq))

\* C19: transmit with policy Wait tries once and retries at most 8 times,
\* sleeping once before each retry; when it returns true the attempt that
\* found room was its last one and put the frame in the buffer; when it
\* returns false every one of the 9 attempts failed, can_drop was incremented
\* exactly once and no frame was put in the buffer.
WaitIsBounded ==
    can.policy = "Wait" =>
        /\ can.tries <= 1 + RETRIES
        /\ Len(can.delays) = can.tries - 1
        /\ can.pc \in {"idle", "sleep"}
        /\ can.pc = "sleep" => (can.ret = "none" /\ can.won = 0 /\ can.tries <= RETRIES)
        /\ can.ret = "true" => (can.won = can.tries /\ can.added = 1 /\ can.drop = 0)
        /\ can.ret = "false" =>
              (can.tries = 1 + RETRIES /\ can.won = 0 /\ can.added = 0 /\ can.drop = 1)
        /\ can.pc = "idle" => can.ret # "none"

\* C19: the buffer was full at all nine attempts and the frame was dropped
DroppedAfterRetries ==
    /\ can.policy = "Wait" /\ can.ret = "false"
    /\ can.tries = 9 /\ Len(can.delays) = 8 /\ can.drop = 1
    /\ can.queue = TX_BUF

\* C20: the delays of a transmit with policy Wait are strictly increasing,
\* the first is about 600 us (at most one step of 500 us above), each is
\* 500 us longer than the one before, and when the frame is dropped their
\* sum is at most 10 ms.
BackoffWithinTenMs ==
    can.policy = "Wait" =>
        /\ \A k \in 1..(Len(can.delays) - 1) :
              can.delays[k] < can.delays[k + 1] /\ can.delays[k + 1] = can.delays[k] + 500
        /\ can.delays # <<>> => (can.delays[1] >= 600 /\ can.delays[1] <= 1100)
        /\ can.ret = "false" => Sum(can.delays) <= 10000

----------------------------------------------------------------------------
(* Properties of the scanner and the converter *)

\* C21: the converter classifies holds at 400 ms: Deactivated(ms) gives
\* ShortClick, Deactivated when ms <= 400 and LongClick, LongDeactivated,
\* Deactivated when ms > 400; Active(ms) gives LongActivated exactly when
\* ms >= 400; Activated gives Activated.
ClassifiedAt400 ==
    /\ buttons.event.state = "Activated" => buttons.out = <<"Activated">>
    /\ buttons.event.state = "Active" =>
          buttons.out = IF buttons.event.ms >= 400 THEN <<"LongActivated">> ELSE <<>>
    /\ buttons.event.state = "Deactivated" =>
          buttons.out = IF buttons.event.ms <= 400
                        THEN <<"ShortClick", "Deactivated">>
                        ELSE <<"LongClick", "LongDeactivated", "Deactivated">>

IsPrefix(p, q) == Len(p) <= Len(q) /\ p = SubSeq(q, 1, Len(p))

\* C22: the triggers delivered for a press (repeated LongActivated counted
\* once) are, at every moment, the beginning of Activated, ShortClick,
\* Deactivated or of Activated, LongActivated, LongClick, LongDeactivated,
\* Deactivated.
PressIsDocumented ==
    \A k \in Wired :
        \/ IsPrefix(buttons.press[k], <<"Activated", "ShortClick", "Deactivated">>)
        \/ IsPrefix(buttons.press[k], <<"Activated", "LongActivated", "LongClick",
                                       "LongDeactivated", "Deactivated">>)

\* the events the last iteration transmitted for the line at pos
SentFor(s, pos) == SelectSeq(s.sent, LAMBDA ev : ev.switch_id = s.io_indices[pos + 1])

\* C23: on a successful poll a line that reads active counts one more poll
\* (stopping at 65535) and emits Activated when the count reaches 2 and
\* Active(30 * count) when it is above; a line that reads inactive emits
\* Deactivated(30 * count) if the count was 2 or more and nothing otherwise,
\* and counts from 0 again; so per line Activated follows nothing or
\* Deactivated, and Active and Deactivated follow Activated or Active.  A
\* failed poll emits nothing and keeps the counts.
DebouncedLine(s, pos) ==
    IF ~bit(s.last_input, pos)
    THEN /\ s.state[pos] = IF s.before[pos] = U16_MAX THEN U16_MAX ELSE s.before[pos] + 1
         /\ s.state[pos] < MIN_TIME => SentFor(s, pos) = <<>>
         /\ s.state[pos] = MIN_TIME =>
               /\ SentFor(s, pos) = <<SwitchEvent(s.io_indices[pos + 1], "Activated", 0)>>
               /\ s.prev[pos] \in {"None", "Deactivated"}
         /\ s.state[pos] > MIN_TIME =>
               /\ SentFor(s, pos) =
                     <<SwitchEvent(s.io_indices[pos + 1], "Active", 30 * s.state[pos])>>
               /\ s.prev[pos] \in {"Activated", "Active"}
    ELSE /\ s.state[pos] = 0
         /\ s.before[pos] < 2 => SentFor(s, pos) = <<>>
         /\ s.before[pos] >= 2 =>
               /\ SentFor(s, pos) =
                     <<SwitchEvent(s.io_indices[pos + 1], "Deactivated", 30 * s.before[pos])>>
               /\ s.prev[pos] \in {"Activated", "Active"}
PanicsAfter60InARow ==
    exp.switches.panicked <=> exp.switches.streak > 60

\* C25: the scanner of the optional expander never panics, and after a failed
\* transfer get_inputs() returns None.
SensorsTolerateErrors ==
    /\ ~exp.sensors.panicked
    /\ exp.sensors.read # "ok" => get_inputs(exp.sensors) = NoInputs

----------------------------------------------------------------------------
(* Properties of the status broadcast *)

\* the transmissions of the last send_status, in order
StatusMessages ==
    [k \in 1..Len(SelectSeq(status.steps, LAMBDA st : st.op = "transmit")) |->
        SelectSeq(status.steps, LAMBDA st : st.op = "transmit")[k].message]

\* the state send_status is to report for the input at position p of e
InputState(e, p) ==
    IF e.read # "ok" THEN "Error" ELSE IF bit(e.last_input, p - 1) THEN "On" ELSE "Off"

\* exactly one of the messages after the outputs' is about the input at
\* position p of e, and it carries the state
InputReportedOnce(T, e, p) ==
    /\ Cardinality({k \in (Len(indices) + 1)..Len(T) :
                       T[k].type = "Input" /\ T[k].idx = e.io_indices[p]}) = 1
    /\ \A k \in (Len(indices) + 1)..Len(T) :
          (T[k].type = "Input" /\ T[k].idx = e.io_indices[p]) => T[k].state = InputState(e, p)

StatusCovers(T) ==
    /\ Len(T) = Len(indices) + 32
    /\ \A p \in 1..Len(indices) :
          T[p] = StatusIO("Output", indices[p], IF io.state[p] THEN "On" ELSE "Off")
    /\ \A p \in 1..16 :
          InputReportedOnce(T, exp.sensors, p) /\ InputReportedOnce(T, exp.switches, p)

\* C26: a status request or a SendStatus opcode transmits one StatusIO per
\* declared output with its cached state, then one StatusIO per input of
\* each expander: On or Off from the last word read when the last read
\* succeeded, Error for all 16 inputs when the expander was never read or
\* its last read failed.
StatusCoversEveryIO == status.cause # "None" => StatusCovers(StatusMessages)

\* C26: a broadcast with an output on, the sensors online with line 0 low and
\* the switches offline after a failed read
StatusWithOfflineSwitches ==
    /\ status.cause = "SendStatus"
    /\ \E p \in 1..Len(indices) : io.state[p]
    /\ exp.sensors.read = "ok" /\ exp.sensors.last_input = 65534
    /\ exp.switches.read = "err"
    /\ \E k \in 1..Len(status.steps) : status.steps[k].message.state = "Error"

\* C27: in a status broadcast no transmission follows another without a
\* timer wait of at least 1 ms between them.
StatusPaced ==
    \A k \in 1..(Len(status.steps) - 1) :
        status.steps[k].op = "transmit" =>
            status.steps[k + 1].op = "timer" /\ status.steps[k + 1].ms >= 1

----------------------------------------------------------------------------
(* Properties of the shutters' homing *)

TiltAndGoCmds == {"Go", "Tilt", "TiltClose", "TiltOpen", "TiltHalf", "TiltReverse"}

\* the command the manager handed to shutter i in this step
Handed(i, cs) == delivered'.idx = i /\ delivered'.cmd.c \in cs /\ mgr' = "run"

SamePosition(i) ==
    shutters'[i].height = shutters[i].height /\ shutters'[i].tilt = shutters[i].tilt

\* C28: the first Open sets the assumed position to (100, 100) and the first
\* Close to (0, 0), and sets in_sync; with in_sync set an Open or Close does
\* not write the position again; Go and Tilt commands and timer visits leave
\* in_sync as it is and never write the assumed position.
HomingStep(i) ==
    /\ (Handed(i, {"Open"}) /\ ~shutters[i].in_sync) =>
          /\ shutters'[i].in_sync /\ shutters'[i].h_home = "Open"
          /\ shutters'[i].height = 100 * HScale /\ shutters'[i].tilt = 100 * TScale
    /\ (Handed(i, {"Close"}) /\ ~shutters[i].in_sync) =>
          /\ shutters'[i].in_sync /\ shutters'[i].h_home = "Close"
          /\ shutters'[i].height = 0 /\ shutters'[i].tilt = 0
    /\ (Handed(i, {"Open", "Close"}) /\ shutters[i].in_sync) =>
          /\ shutters'[i].in_sync /\ shutters'[i].h_home = shutters[i].h_home
          /\ shutters[i].action \in {"Sleep", "Idle"} => SamePosition(i)
    /\ ~Handed(i, {"Open", "Close"}) =>
          /\ shutters'[i].in_sync = shutters[i].in_sync
          /\ shutters'[i].h_home = shutters[i].h_home
          /\ (Handed(i, TiltAndGoCmds) /\ shutters[i].action \in {"Sleep", "Idle"})
                => SamePosition(i)
    /\ shutters'[i].in_sync <=> shutters'[i].h_home \in {"Open", "Close"}
HomingIsOneShot == [][\A i \in DOMAIN shutters : HomingStep(i)]_vars

\* C28: a Close handed to a shutter that an Open has homed and that has
\* moved since: the position is not written to (0, 0)
ClosedAfterHomingOpen ==
    \E i \in DOMAIN shutters :
        /\ delivered.idx = i /\ delivered.cmd.c = "Close" /\ mgr = "run"
        /\ shutters[i].h_home = "Open" /\ shutters[i].in_sync
        /\ shutters[i].height # 0 /\ shutters[i].height # 100 * HScale

\* C29: an Open taken at the closed end that ran to completion has driven
\* the shutter for tilt_time + rise_time + over_time, a Close taken at the
\* open end for tilt_time + drop_time + over_time.
FullTravelOvershoots ==
    \A i \in DOMAIN shutters :
        (Configured(shutters[i]) /\ shutters[i].h_done) =>
            /\ (shutters[i].h_cmd = "Open" /\ shutters[i].h_from = "closed") =>
                  shutters[i].h_run >= tilt_time + rise_time + over_time
            /\ (shutters[i].h_cmd = "Close" /\ shutters[i].h_from = "open") =>
                  shutters[i].h_run >= tilt_time + drop_time + over_time

----------------------------------------------------------------------------
(* Properties of the registers *)

\* the value of register r after the first k opcodes of ran, before being
\* its value when the handler started
RegisterAfter(ran, k, r, before) ==
    LET sets == {j \in 1..k : ran[j].op.o = "SetRegister" /\ ran[j].op.a = r}
    IN  IF sets = {} THEN before
        ELSE ran[CHOOSE j \in sets : \A i \in sets : i <= j].op.b

\* the opcode executed after the k-th of ran is the first of procedure proc
Entered(m, k, proc) ==
    /\ m.ran[k + 1].pc > 1
    /\ m.opcodes[m.ran[k + 1].pc - 1] = Op("Start", proc, 0)

\* one handler of the Executor, on the registers
RegistersStep ==
    /\ vm.status = "new" => \A r \in 0..(REGISTERS - 1) : vm.registers[r] = 0
    /\ \A r \in 0..(REGISTERS - 1) :
          vm'.registers[r] = RegisterAfter(vm'.ran, Len(vm'.ran), r, vm.registers[r])
    /\ \A k \in 1..Len(vm'.ran) :
          vm'.ran[k].op.o = "CallRegister" =>
              IF k = Len(vm'.ran) THEN vm'.status = "panic"
              ELSE Entered(vm', k, RegisterAfter(vm'.ran, k, vm'.ran[k].op.a,
                                                 vm.registers[vm'.ran[k].op.a]))

\* C30: the registers are zero after construction; a handler leaves each
\* register at the value of the last SetRegister it executed on it, else as
\* it was, whatever the event; CallRegister(r) continues with the first
\* opcode of the procedure whose index register r holds at that moment.
RegistersIndirect == [][RegistersStep]_vars

\* the button bound to procedure 4 has stepped from procedure 2 on to
\* procedure 3, which named procedure 2 again
ChainStepped ==
    /\ vm.status = "run"
    /\ vm.opcodes = Chained(<<Op("SetRegister", 0, 2), Op("SetRegister", 31, 3),
                              Op("BindShortCall", 1, 4)>>)
    /\ vm.event = Ev("ButtonEvent", 1, "ShortClick")
    /\ Len(vm.ran) > 1 /\ vm.ran[1].op = Op("CallRegister", 0, 0)
    /\ Entered(vm, 1, 3)
    /\ vm.registers[0] = 2 /\ vm.registers[31] = 3

----------------------------------------------------------------------------
(* Properties of Executor::execute *)

\* the procedure the opcode calls on the Executor m
Callee(m, op) == IF op.o = "Call" THEN op.a ELSE m.registers[op.a]

\* execute and the opcode-by-opcode loop end alike (the loop keeps no
\* history of the opcodes executed)
SameOutcome ==
    cpu.state \in {"done", "panic"} =>
        cpu.m = [execute(indexed(cpu.m.opcodes), cpu.proc) EXCEPT !.ran = <<>>]

\* one turn of the loop, on the call stack (at: the opcode taken)
CallStackTurn ==
    LET at == cpu.pc + 1
        op == cpu.m.opcodes[at]
    IN  (cpu.state = "run" /\ cpu' # cpu /\ at <= Len(cpu.m.opcodes)) =>
          /\ op.o \in {"Call", "CallRegister"} =>
                IF Len(cpu.stack) < 3
                THEN /\ cpu'.state = "run"
                     /\ cpu'.stack = Append(cpu.stack, at)
                     /\ (\E k \in 1..Len(cpu.m.opcodes) :
                            cpu.m.opcodes[k] = Op("Start", Callee(cpu.m, op), 0))
                         => cpu.m.opcodes[cpu'.pc] = Op("Start", Callee(cpu.m, op), 0)
                ELSE cpu'.state = "panic" /\ cpu'.pc = cpu.pc /\ cpu'.stack = cpu.stack
          /\ op.o = "Stop" =>
                IF cpu.stack = <<>> THEN cpu'.state = "done"
                ELSE /\ cpu'.state = "run"
                     /\ cpu'.pc = cpu.stack[Len(cpu.stack)]
                     /\ cpu'.stack = SubSeq(cpu.stack, 1, Len(cpu.stack) - 1)
          /\ Len(cpu'.stack) <= 3

\* C31: a call pushes the position of the call and continues after the
\* Start of the procedure called; Stop resumes after the call on top of the
\* stack, or ends the execution when the stack is empty; a call with 3
\* return addresses stacked panics; never more than 3 are stacked.
CallsNestThreeDeep == [][CallStackTurn]_vars

\* a fourth nested call has panicked
FourthCallPanicked ==
    /\ cpu.state = "panic" /\ Len(cpu.stack) = 3
    /\ cpu.pc + 1 <= Len(cpu.m.opcodes)
    /\ cpu.m.opcodes[cpu.pc + 1].o \in {"Call", "CallRegister"}

\* C38: Executor::execute ends, by the break or by a panic, whatever the
\* program and the procedure.
ExecuteTerminates == (cpu.state = "run") ~> (cpu.state \in {"done", "panic"})

\* a procedure that calls itself has ended in the stack overflow
RecursionEnded ==
    /\ cpu.state = "panic" /\ Len(cpu.stack) = 3
    /\ \A k \in 1..3 : cpu.stack[k] = cpu.pc + 1

----------------------------------------------------------------------------
(* Properties of the manager's wait *)

AllSleep == \A i \in DOMAIN shutters : shutters[i].action = "Sleep"

\* the wait when some shutter is not in Sleep: at most UPDATE_PERIOD and at
\* most what is left of a cooldown
AwakeWait ==
    (mgr = "run" /\ ~AllSleep) =>
        /\ wait <= UPDATE_PERIOD
        /\ \A i \in DOMAIN shutters :
              (shutters[i].action = "Cooldown" /\ shutters[i].since < COOLDOWN)
                  => wait <= COOLDOWN - shutters[i].since

\* C32: the manager waits at most UPDATE_PERIOD, and at most the shorter
\* delay a shutter returned, while a shutter is not in Sleep, and
\* NOOP_UPDATE_PERIOD when all shutters are in Sleep.
RevisitPeriod ==
    /\ AwakeWait
    /\ (mgr = "run" /\ AllSleep) => wait = NOOP_UPDATE_PERIOD

----------------------------------------------------------------------------
(* Properties of the can_tx mutex *)

\* a task awaits the mutex another task holds
Delayed(t) ==
    lock.task[t].at \in {"lock", "relock"} /\ lock.holder \notin {Nobody, t}

\* no task transmits with WhenFull::Block
NobodyBlocks == \A t \in Transmitters : lock.task[t].when_full # "Block"

\* with Drop and Wait only, the mutex is free whenever a task awaits
FreeWithoutBlock == [](NobodyBlocks) => [](lock.holder = Nobody)

\* C33: the can_tx mutex is held only for one try-push: it is free whenever
\* a task is at an await, whatever the policies of the transmitting tasks,
\* so no task with Drop or Wait waits for the mutex of another.
MutexHeldForTryPushOnly ==
    /\ lock.holder = Nobody
    /\ \A t \in Transmitters : lock.task[t].when_full \in {"Drop", "Wait"} => ~Delayed(t)

----------------------------------------------------------------------------
(* Properties of the end of a movement *)

\* the shutter at i is driven
Moving(i) == shutters[i].action \in {"Up", "Down"}

\* the revisit made when the pending timer fires leaves the shutters and
\* the next wait exactly as they are, the shutter at i among them: without
\* a command the shutter stays as it is for ever
Stalled(i) ==
    /\ on_timeout(wait, {}).shutters = shutters
    /\ on_timeout(wait, {}).wait = wait

\* C34: a configured shutter in Up or Down does not stay there for ever
\* while the manager revisits it: the revisits of a driven shutter do not
\* come to a standstill.
MovementEnds ==
    \A i \in DOMAIN shutters :
        (mgr = "run" /\ Configured(shutters[i]) /\ Moving(i)) => ~Stalled(i)

----------------------------------------------------------------------------
(* Properties of the shutter outputs *)

\* C35: the up and the down output of a configured shutter are never driven
\* active together, whatever the Executor and the manager do to them.
NeverUpAndDown ==
    \A i \in DOMAIN shutters :
        Configured(shutters[i]) =>
            ~(Driven(io, shutters[i].up) /\ Driven(io, shutters[i].down))

\* C36: on every expander line the word last written successfully drives
\* the level the cache holds, whatever sets and toggles failed before.
WireAgreesWithCache ==
    \A position \in 1..(16 * EXPANDER_N) : driven_at(io, position) = io.state[position]

----------------------------------------------------------------------------
(* Properties of the bus reader with the tasks it sends to *)

----------------------------------------------------------------------------
(* Shutter::set_target reached through Shutter::command *)

\* C40: the panic of set_target (called with the shutter in Up or Down)
\* is never reached through Shutter::command: whenever the manager task
\* has panicked on a command, the command was SetIO (the assertion of the
\* SetIO arm), never a movement command, because update() and finish()
\* have turned Up and Down into Cooldown before set_target is called.
SetTargetNeverPanics ==
    mgr = "panic" => delivered.cmd.c = "SetIO"

\* a movement command was executed while the shutter was moving: the
\* movement was cut between the ends of the travel (a movement that ends by
\* itself ends at its target), the cooldown has just begun, and the manager
\* runs
CutWhileMoving ==
    /\ mgr = "run"
    /\ delivered.cmd.c \in MovementCmds
    /\ \E i \in CmdShutters :
          /\ shutters[i].action = "Cooldown"
          /\ shutters[i].h_last \in {"Up", "Down"}
          /\ shutters[i].h_rest = 0
          /\ shutters[i].h_cmd = delivered.cmd.c
          /\ 25 * HScale < shutters[i].height
          /\ shutters[i].height < 75 * HScale

----------------------------------------------------------------------------
(* The tasks together *)

RECURSIVE WaitChain(_, _, _)
\* t waits for u through at most n tasks
WaitChain(t, u, n) ==
    IF n = 0 THEN FALSE
    ELSE WaitsFor(t, u) \/ \E w \in Tasks : WaitsFor(t, w) /\ WaitChain(w, u, n - 1)

\* something is left to do for a task of the node
Pending ==
    \/ sys.input_q > 0 \/ sys.converter > 0 \/ sys.events > 0 \/ sys.inbox # <<>>
    \/ sys.vm # <<>> \/ sys.manager = "run" \/ sys.reader \in {"event", "shutter", "tx"}

\* no task waits for itself through other tasks, and while no task has
\* panicked some task can go on whenever something is left to do
NoWaitCycle ==
    /\ \A t \in Tasks : ~WaitChain(t, t, Cardinality(Tasks))
    /\ (Pending /\ ~Halted(sys)) => ENABLED (VmTask \/ ManagerTask \/ ReaderTask \/ ConverterTask)

\* while no task has panicked every event in the channel is received by
\* the VM and its handler returns
ProcessedUnlessHalted ==
    /\ (sys.events > 0) ~> (sys.vm # <<>> \/ Halted(sys))
    /\ (sys.vm # <<>>) ~> (sys.vm = <<>> \/ Halted(sys))

====
